---------------------------- MODULE Spec2Model ----------------------------
(***************************************************************************)
(* A model of the blogger static-site tool (src/blogger/blogger.py and its *)
(* earlier iteration src/site-compiler.py): the DirectoryWatcher change    *)
(* detector, the front-matter parser serialize_post, the compile pipeline, *)
(* the ignore-pattern matchers, the draft / post workflow and the run loop.*)
(*                                                                         *)
(* Text is a sequence of one-character strings.  A path is a sequence of   *)
(* components, each component a text.  A tree is a function from the paths *)
(* that exist to their entries.                                            *)
(***************************************************************************)
EXTENDS Integers, Sequences, FiniteSets, TLC

VARIABLES
    \* ---- DirectoryWatcher ----
    platform,          \* "win32" or "posix": what open() of a directory raises
    fs,                \* the watched tree: path -> [kind, data, perm]
    ignore_patterns,   \* DirectoryWatcher.ignore_patterns (a list of patterns)
    winit,             \* the constructor's init argument
    wpc,               \* "new" | "ready" | "crashed" (constructor raised)
    path_hash,         \* DirectoryWatcher.path_hash: absolute name -> digest
    result,            \* outcome of the most recent dirty() call
    tick,              \* flips on every dirty() call
    calls,             \* number of dirty() calls so far, saturating at 2
    lastFs,            \* the tree as it was at the most recent dirty() call
    \* ---- serialize_post ----
    source_text,       \* the text handed to serialize_post
    yaml_in,           \* what yaml's load_all does with that text
    parsed,            \* the Post serialize_post returned, once it has
    \* ---- the three ignore-pattern matchers side by side ----
    ig,                \* one tree and pattern list, scanned, watched and copied
    \* ---- Main: the compile and run commands ----
    program,           \* "blogger" (blogger.py) or "site-compiler"
    cmd,               \* "compile" or "run"
    pc,                \* where the process is
    ctx,               \* the compile at hand: "oneshot", "initial" or "watch"
    status,            \* "running", or how the process ended
    site_data,         \* Main.site_data
    main_ignore_patterns,      \* Main.ignore_patterns
    args_drafts,       \* args.drafts
    ext_env,           \* the extensions module and its requirements
    user_extension_classes,    \* Main.user_extension_classes
    user_extension_instances,  \* Main.user_extension_instances
    cycle,             \* number of compile cycles begun
    templates_dict,    \* compile's templates_dict
    posts_dict,        \* compile's posts_dict
    pi,                \* index of the post at hand
    ti,                \* index of the template at hand
    out_dir,           \* the output tree (out_dir)
    out_dir0,          \* the output tree when the cycle began
    cfail,             \* how the cycle at hand failed, if it did
    thandled,          \* the templates the cycle went through, with the answers
    log,               \* the hook calls, renders and writes of the cycle
    quit,              \* run's quit flag
    server,            \* the server process: "none", "running", "terminated"
    edits,             \* number of edits the author made
    prev,              \* the last compile command that ran to its end: what it went through
    \* ---- the post command ----
    pub,               \* the publication at hand: position, inputs, the Post
    \* ---- the draft command ----
    dr                 \* the draft creation at hand: position, name, index

watchVars == <<platform, fs, ignore_patterns, winit, wpc, path_hash, result,
               tick, calls, lastFs>>

parseVars == <<source_text, yaml_in, parsed>>

mainVars == <<program, cmd, pc, ctx, status, site_data, main_ignore_patterns,
              args_drafts, ext_env, user_extension_classes,
              user_extension_instances, cycle, templates_dict, posts_dict,
              pi, ti, out_dir, out_dir0, cfail, thandled, log, quit, server, edits,
              prev>>

\* The watcher without the tree.
watcherVars == <<platform, ignore_patterns, winit, wpc, path_hash, result,
                 tick, calls, lastFs>>

vars == <<watchVars, parseVars, ig, mainVars, pub, dr>>

notWatch == <<parseVars, ig, mainVars, pub, dr>>
notParse == <<watchVars, ig, mainVars, pub, dr>>
notIg == <<watchVars, parseVars, mainVars, pub, dr>>
notMain == <<watchVars, parseVars, ig, pub, dr>>

-----------------------------------------------------------------------------
(* Bounds *)

MaxData == 1
MaxTokens == 6
MaxEdits == 2
MaxSuffix == 3
MaxRuns == 2

-----------------------------------------------------------------------------
(* Text helpers *)

RECURSIVE Concat(_)
Concat(ss) == IF ss = <<>> THEN <<>> ELSE Head(ss) \o Concat(Tail(ss))

RECURSIVE JoinWith(_, _)
JoinWith(sep, ss) ==
    IF ss = <<>> THEN <<>>
    ELSE IF Len(ss) = 1 THEN ss[1]
    ELSE ss[1] \o sep \o JoinWith(sep, Tail(ss))

StartsWith(s, pre) == Len(s) >= Len(pre) /\ SubSeq(s, 1, Len(pre)) = pre

EndsWith(s, suf) ==
    Len(s) >= Len(suf) /\ SubSeq(s, Len(s) - Len(suf) + 1, Len(s)) = suf

Range(f) == {f[x] : x \in DOMAIN f}

\* fnmatch.fnmatch(name, pattern) on a platform whose normcase is the identity:
\* "*" matches any text (path separators included), "?" one character, any
\* other character itself; the whole name must match.
RECURSIVE FnMatch(_, _)
FnMatch(s, p) ==
    IF p = <<>> THEN s = <<>>
    ELSE IF Head(p) = "*"
         THEN FnMatch(s, Tail(p)) \/ (s # <<>> /\ FnMatch(Tail(s), p))
    ELSE IF Head(p) = "?"
         THEN s # <<>> /\ FnMatch(Tail(s), Tail(p))
    ELSE s # <<>> /\ Head(s) = Head(p) /\ FnMatch(Tail(s), Tail(p))

-----------------------------------------------------------------------------
(* Paths and trees *)

SEP == <<"/">>

\* The absolute path of the working directory.
WorkDir == <<"/", "w">>

\* str(path) of a path below the working directory.
PathStr(path) == WorkDir \o SEP \o JoinWith(SEP, path)

Parent(path) == SubSeq(path, 1, Len(path) - 1)

File(d, readable) == [kind |-> "file", data |-> d, perm |-> readable]
Dir == [kind |-> "dir", data |-> 0, perm |-> TRUE]

\* A tree holds a path only together with its parent directory.
WellFormed(tree) ==
    \A p \in DOMAIN tree :
        Len(p) > 1 => (Parent(p) \in DOMAIN tree /\ tree[Parent(p)].kind = "dir")

A_MD == <<"a", ".", "m", "d">>
B_MD == <<"b", ".", "m", "d">>
DA_MD == <<"d", "a", ".", "m", "d">>
A_B_MD == <<"a", " ", "b", ".", "m", "d">>
D    == <<"d">>

\* The paths the watched tree may hold: a file, a directory, a file in it.
WatchFiles == {<<A_MD>>, <<D, B_MD>>}
WatchDirs  == {<<D>>}
WatchPaths == WatchFiles \cup WatchDirs

\* The lists of ignore patterns a watcher may be given.
PAT_B    == <<"*", "b", ".", "m", "d">>       \* "*b.md"
PAT_DIR  == <<"*", "/", "d">>                 \* "*/d"  (the directory alone)
PAT_TREE == <<"*", "/", "d", "*">>            \* "*/d*" (the directory and below)
WatchIgnoreLists == {<<>>, <<PAT_B>>, <<PAT_DIR>>, <<PAT_TREE>>}

-----------------------------------------------------------------------------
(* DirectoryWatcher *)

md5(data) == <<"md5", data>>

\* The loop of lines 66-69: some pattern of the list matches str(path).
WatchSkips(patterns, path) ==
    \E i \in 1..Len(patterns) : FnMatch(PathStr(path), patterns[i])

\* path.open("rb"); f.read(): the bytes, or the exception raised.  Opening a
\* directory raises PermissionError on win32 and IsADirectoryError elsewhere.
OpenRb(entry, plat) ==
    IF entry.kind = "dir"
    THEN IF plat = "win32" THEN "PermissionError" ELSE "IsADirectoryError"
    ELSE IF entry.perm THEN "ok" ELSE "PermissionError"

\* The orders in which glob("**/*") may yield the entries of a tree: the
\* children of the root in directory order, then those of each subdirectory.
RECURSIVE Perms(_)
Perms(S) ==
    IF S = {} THEN {<<>>}
    ELSE UNION {{<<x>> \o q : q \in Perms(S \ {x})} : x \in S}

RECURSIVE LevelOrders(_, _)
LevelOrders(tree, depth) ==
    IF \A p \in DOMAIN tree : Len(p) < depth THEN {<<>>}
    ELSE {a \o b : a \in Perms({p \in DOMAIN tree : Len(p) = depth}),
                   b \in LevelOrders(tree, depth + 1)}

WalkOrders(tree) == LevelOrders(tree, 0)

\* One iteration of the for loop of dirty() (lines 63-81).
DirtyVisit(acc, path, tree, patterns, plat) ==
    IF patterns # <<>> /\ WatchSkips(patterns, path)
    THEN acc
    ELSE LET opened == OpenRb(tree[path], plat) IN
         IF opened = "PermissionError" THEN acc
         ELSE IF opened # "ok" THEN [acc EXCEPT !.raised = TRUE]
         ELSE LET h    == md5(tree[path].data)
                  name == PathStr(path)
              IN [acc EXCEPT
                    !.dirty = acc.dirty \/ name \notin DOMAIN acc.path_hash
                                        \/ acc.path_hash[name] # h,
                    !.path_hash = (name :> h) @@ acc.path_hash]

RECURSIVE DirtyLoop(_, _, _, _, _, _)
DirtyLoop(acc, order, i, tree, patterns, plat) ==
    IF i > Len(order) \/ acc.raised THEN acc
    ELSE DirtyLoop(DirtyVisit(acc, order[i], tree, patterns, plat),
                   order, i + 1, tree, patterns, plat)

\* DirectoryWatcher.dirty(): the value returned (or that an exception left
\* the loop) and the snapshot it leaves.
DirtyCall(hash, order, tree, patterns, plat) ==
    DirtyLoop([dirty |-> FALSE, path_hash |-> hash, raised |-> FALSE],
              order, 1, tree, patterns, plat)

NoResult == [raised |-> FALSE, value |-> FALSE]
EmptyDict == [x \in {} |-> 0]

WatchInit ==
    /\ platform \in {"win32", "posix"}
    /\ fs \in UNION {[S -> {Dir}] : S \in SUBSET WatchDirs}
    /\ ignore_patterns \in WatchIgnoreLists
    /\ winit \in BOOLEAN
    /\ wpc = "new"
    /\ path_hash = EmptyDict
    /\ result = NoResult
    /\ tick = 0
    /\ calls = 0
    /\ lastFs = EmptyDict

\* The outcomes a dirty() call may have, over the orders of the walk.
DirtyOutcomes(hash, tree, patterns, plat) ==
    {DirtyCall(hash, order, tree, patterns, plat) : order \in WalkOrders(tree)}

\* The bookkeeping of one dirty() call that ended as r.
DoDirtyMutant(r) ==
    /\ path_hash' = path_hash
    /\ result' = [raised |-> r.raised, value |-> ~r.raised /\ r.dirty]
    /\ tick' = 1 - tick
    /\ calls' = IF calls < 2 THEN calls + 1 ELSE 2
    /\ lastFs' = fs
DoDirty(r) ==
    /\ path_hash' = r.path_hash
    /\ result' = [raised |-> r.raised, value |-> ~r.raised /\ r.dirty]
    /\ tick' = 1 - tick
    /\ calls' = IF calls < 2 THEN calls + 1 ELSE 2
    /\ lastFs' = fs

\* DirectoryWatcher.__init__ (lines 53-59).
Construct ==
    /\ wpc = "new"
    /\ IF winit
       THEN \E r \in DirtyOutcomes(path_hash, fs, ignore_patterns, platform) :
              /\ DoDirty(r)
              /\ wpc' = IF result'.raised THEN "crashed" ELSE "ready"
       ELSE /\ wpc' = "ready"
            /\ UNCHANGED <<path_hash, result, tick, calls, lastFs>>
    /\ UNCHANGED <<platform, fs, ignore_patterns, winit>>
    /\ UNCHANGED notWatch

\* A call of dirty() on the constructed watcher.
Dirty ==
    /\ wpc = "ready"
    /\ \E r \in DirtyOutcomes(path_hash, fs, ignore_patterns, platform) : DoDirty(r)
    /\ UNCHANGED <<platform, fs, ignore_patterns, winit, wpc>>
    /\ UNCHANGED notWatch

\* The environment writes a file: new bytes for an existing file, or a new file.
WriteFile ==
    /\ \E p \in WatchFiles, d \in 0..MaxData :
         /\ Len(p) > 1 => Parent(p) \in DOMAIN fs
         /\ p \in DOMAIN fs => fs[p].data # d
         /\ fs' = (p :> File(d, IF p \in DOMAIN fs THEN fs[p].perm ELSE TRUE)) @@ fs
    /\ UNCHANGED <<platform, ignore_patterns, winit, wpc, path_hash, result,
                   tick, calls, lastFs>>
    /\ UNCHANGED notWatch

\* The environment removes an entry (a directory with everything below it).
Remove ==
    /\ \E p \in DOMAIN fs :
         fs' = [q \in {q \in DOMAIN fs : ~StartsWith(q, p)} |-> fs[q]]
    /\ UNCHANGED <<platform, ignore_patterns, winit, wpc, path_hash, result,
                   tick, calls, lastFs>>
    /\ UNCHANGED notWatch

\* The environment creates a directory.
Mkdir ==
    /\ \E p \in WatchDirs \ DOMAIN fs : fs' = (p :> Dir) @@ fs
    /\ UNCHANGED <<platform, ignore_patterns, winit, wpc, path_hash, result,
                   tick, calls, lastFs>>
    /\ UNCHANGED notWatch

\* The environment changes whether a file may be read.
Chmod ==
    /\ \E p \in DOMAIN fs :
         /\ p = <<A_MD>>
         /\ fs' = [fs EXCEPT ![p].perm = ~fs[p].perm]
    /\ UNCHANGED <<platform, ignore_patterns, winit, wpc, path_hash, result,
                   tick, calls, lastFs>>
    /\ UNCHANGED notWatch

-----------------------------------------------------------------------------
(* Change detector: what the claims speak of *)

\* The tracked files of a tree (not ignored, regular, readable) with their bytes.
Tracked(tree, patterns) ==
    {p \in DOMAIN tree :
        /\ tree[p].kind = "file"
        /\ tree[p].perm
        /\ ~WatchSkips(patterns, p)}

TrackedView(tree, patterns) ==
    [p \in Tracked(tree, patterns) |-> tree[p].data]

\* Exactly one tracked file has other bytes, and nothing else differs.
OneFileEdited(old, new, patterns) ==
    /\ Tracked(old, patterns) = Tracked(new, patterns)
    /\ Cardinality({p \in Tracked(new, patterns) : old[p].data # new[p].data}) = 1

Returned(b) == [raised |-> FALSE, value |-> b]

\* This step is a dirty() call.
DirtyStep == tick' # tick

\* What the comparison of line 80 amounts to over a whole walk.
SomeNewOrChanged ==
    \E p \in Tracked(fs, ignore_patterns) :
        \/ PathStr(p) \notin DOMAIN path_hash
        \/ path_hash[PathStr(p)] # md5(fs[p].data)

SnapshotCurrent ==
    \A p \in Tracked(fs, ignore_patterns) :
        /\ PathStr(p) \in DOMAIN path_hash'
        /\ path_hash'[PathStr(p)] = md5(fs[p].data)

\* C1: a dirty() call made when no tracked file changed since the previous
\* call returns false, and the call that follows the change of the bytes of
\* exactly one tracked file returns true.
C1_DirtySettles ==
    [][(DirtyStep /\ calls >= 1) =>
         /\ (TrackedView(fs, ignore_patterns) = TrackedView(lastFs, ignore_patterns)
                => result' = Returned(FALSE))
         /\ (OneFileEdited(lastFs, fs, ignore_patterns)
                => result' = Returned(TRUE))]_vars

\* C2: every dirty() call returns true exactly when some tracked file of the
\* walk is new or has another hash than its snapshot entry, and leaves the
\* current hash of every tracked file in the snapshot.
C2_DirtyIff ==
    [][DirtyStep =>
         /\ result' = Returned(SomeNewOrChanged)
         /\ SnapshotCurrent]_vars

\* The same two statements for the calls that return: they fail only where
\* open() of a directory raises something other than PermissionError.
C1_WhenReturned ==
    [][(DirtyStep /\ calls >= 1 /\ ~result.raised /\ ~result'.raised) =>
         /\ (TrackedView(fs, ignore_patterns) = TrackedView(lastFs, ignore_patterns)
                => result' = Returned(FALSE))
         /\ (OneFileEdited(lastFs, fs, ignore_patterns)
                => result' = Returned(TRUE))]_vars

C2_WhenReturned ==
    [][(DirtyStep /\ ~result'.raised) =>
         /\ result' = Returned(SomeNewOrChanged)
         /\ SnapshotCurrent]_vars

WatchNext == Construct \/ Dirty \/ WriteFile \/ Remove \/ Mkdir \/ Chmod


\* The new tree is the old one without some of its tracked files, and
\* nothing else differs.
OnlyTrackedRemoved(old, new, patterns) ==
    /\ DOMAIN new \subseteq DOMAIN old
    /\ DOMAIN new # DOMAIN old
    /\ \A p \in DOMAIN new : new[p] = old[p]
    /\ \A p \in DOMAIN old \ DOMAIN new : p \in Tracked(old, patterns)

\* The call looked at no entry of the snapshot whose path is gone: every
\* entry is still there as it was.
SnapshotKept ==
    \A name \in DOMAIN path_hash :
        name \in DOMAIN path_hash' /\ path_hash'[name] = path_hash[name]

\* C19: a dirty() call before which, since the previous call, tracked files
\* were removed and nothing else happened returns false; the snapshot
\* entries of the removed files are not looked at.
C19_RemovalNotDirty ==
    [][(DirtyStep /\ calls >= 1 /\ OnlyTrackedRemoved(lastFs, fs, ignore_patterns)) =>
         /\ result' = Returned(FALSE)
         /\ SnapshotKept]_vars

\* The same for the calls that return.
C19_WhenReturned ==
    [][(DirtyStep /\ calls >= 1 /\ ~result'.raised
          /\ OnlyTrackedRemoved(lastFs, fs, ignore_patterns)) =>
         /\ result' = Returned(FALSE)
         /\ SnapshotKept]_vars

\* The entries of the walk that dirty() gets to and cannot open or read.
Unopenable ==
    {p \in DOMAIN fs :
        /\ ~(ignore_patterns # <<>> /\ WatchSkips(ignore_patterns, p))
        /\ OpenRb(fs[p], platform) # "ok"}

\* The call wrote no snapshot entry for the entries it could not open.
NoEntryForUnopenable ==
    \A p \in Unopenable :
        PathStr(p) \in DOMAIN path_hash' =>
            /\ PathStr(p) \in DOMAIN path_hash
            /\ path_hash'[PathStr(p)] = path_hash[PathStr(p)]

\* C22: dirty() passes over every entry it cannot open or read: it returns,
\* with the result the other entries give, and has written no snapshot entry
\* for such an entry.
C22_UnopenableSkipped ==
    [][DirtyStep =>
         /\ result' = Returned(SomeNewOrChanged)
         /\ NoEntryForUnopenable]_vars

\* What does hold: so it is where open() raises PermissionError.
C22_PermissionDeniedSkipped ==
    [][(DirtyStep /\ \A p \in Unopenable : OpenRb(fs[p], platform) = "PermissionError") =>
         /\ result' = Returned(SomeNewOrChanged)
         /\ NoEntryForUnopenable]_vars

-----------------------------------------------------------------------------
(* Front-matter parser: serialize_post *)

None == [some |-> FALSE, text |-> <<>>]
Some(t) == [some |-> TRUE, text |-> t]

DELIM == <<"-", "-", "-">>

\* str.find: the first index at or after `from` where sep starts in s, 0 if none.
RECURSIVE Find(_, _, _)
Find(s, sep, from) ==
    IF from + Len(sep) - 1 > Len(s) THEN 0
    ELSE IF SubSeq(s, from, from + Len(sep) - 1) = sep THEN from
    ELSE Find(s, sep, from + 1)

\* str.split(sep): the segments between the occurrences of sep, found left to
\* right without overlap.
RECURSIVE Split(_, _)
Split(s, sep) ==
    LET i == Find(s, sep, 1) IN
    IF i = 0 THEN <<s>>
    ELSE <<SubSeq(s, 1, i - 1)>> \o Split(SubSeq(s, i + Len(sep), Len(s)), sep)

\* Metadata values: absent, a mapping, or a document that is no mapping.
NoneMeta == [kind |-> "none", map |-> [k \in {} |-> <<>>]]
MapMeta(m) == [kind |-> "map", map |-> m]
ScalarMeta == [kind |-> "scalar", map |-> [k \in {} |-> <<>>]]

\* next(load_all(source_text)): yaml raises on a malformed document, yields
\* nothing for a text without documents (next raises StopIteration), or yields
\* the first document.
YamlError == [kind |-> "error", value |-> NoneMeta]
YamlNoDocs == [kind |-> "nodocs", value |-> NoneMeta]
YamlDoc(v) == [kind |-> "doc", value |-> v]

\* The try / except of lines 101-105.
LoadMetadata(yaml) == IF yaml.kind = "doc" THEN yaml.value ELSE NoneMeta

\* The condition of line 95.
HasFrontMatterMutant(yaml_docs) == Len(yaml_docs) > 1
HasFrontMatter(yaml_docs) == Len(yaml_docs) > 2

\* "".join(yaml_docs[2:]) of line 97.
BodyOfMutant(yaml_docs) == Concat(SubSeq(yaml_docs, 2, Len(yaml_docs)))
BodyOf(yaml_docs) == Concat(SubSeq(yaml_docs, 3, Len(yaml_docs)))

\* serialize_post (lines 93-106).
serialize_post(text, yaml) ==
    LET yaml_docs == Split(text, DELIM) IN
    [source_text   |-> text,
     front_matter  |-> IF HasFrontMatter(yaml_docs) THEN Some(yaml_docs[2]) ELSE None,
     body_text     |-> IF HasFrontMatter(yaml_docs) THEN BodyOf(yaml_docs) ELSE text,
     metadata      |-> LoadMetadata(yaml),
     rendered_text |-> <<>>,
     html          |-> <<>>]

\* The texts parsed: up to MaxTokens pieces, each one character or a delimiter.
ParseTokens == {<<"-">>, <<"a">>, <<"b">>, DELIM}
Texts == {Concat(ts) : ts \in UNION {[1..n -> ParseTokens] : n \in 0..MaxTokens}}

TITLE_HI == <<"H", "i">>
ParseMetas == {NoneMeta, ScalarMeta, MapMeta([title |-> TITLE_HI]),
               MapMeta([k \in {} |-> <<>>])}
YamlResults == {YamlError, YamlNoDocs} \cup {YamlDoc(v) : v \in ParseMetas}

NoPost == [source_text |-> <<>>, front_matter |-> None, body_text |-> <<>>,
           metadata |-> NoneMeta, rendered_text |-> <<>>, html |-> <<>>]

ParseInit ==
    /\ source_text \in Texts
    /\ yaml_in \in YamlResults
    /\ parsed = [done |-> FALSE, post |-> NoPost]

\* A call of serialize_post.
Parse ==
    /\ ~parsed.done
    /\ parsed' = [done |-> TRUE, post |-> serialize_post(source_text, yaml_in)]
    /\ UNCHANGED <<source_text, yaml_in>>
    /\ UNCHANGED notParse

ParseNext == Parse

(* Front-matter parser: what the claims speak of *)

\* The delimiter occurrences of a text, counted as str.count does: the start
\* indices taken left to right, each search resuming after the last match.
RECURSIVE DelimStarts(_, _)
DelimStarts(s, from) ==
    IF from + 2 > Len(s) THEN <<>>
    ELSE IF s[from] = "-" /\ s[from + 1] = "-" /\ s[from + 2] = "-"
         THEN <<from>> \o DelimStarts(s, from + 3)
    ELSE DelimStarts(s, from + 1)

Occurrences(s) == Len(DelimStarts(s, 1))

\* The characters of s at or after index `from` that belong to no delimiter
\* occurrence, in order.
RECURSIVE Undelimited(_, _)
Undelimited(s, from) ==
    IF from > Len(s) THEN <<>>
    ELSE IF \E k \in 1..Occurrences(s) :
                DelimStarts(s, 1)[k] <= from /\ from <= DelimStarts(s, 1)[k] + 2
         THEN Undelimited(s, from + 1)
    ELSE <<s[from]>> \o Undelimited(s, from + 1)

\* C3 as stated: a text with at most 2 delimiter occurrences parses to an
\* item without front matter whose body is the input verbatim.
C3_AtMostTwo ==
    (parsed.done /\ Occurrences(source_text) <= 2) =>
        /\ parsed.post.front_matter = None
        /\ parsed.post.body_text = source_text

\* C3 amended: a text with at most 1 delimiter occurrence parses to an item
\* without front matter whose body is the input verbatim.
C3_AtMostOne ==
    (parsed.done /\ Occurrences(source_text) <= 1) =>
        /\ parsed.post.front_matter = None
        /\ parsed.post.body_text = source_text

C3_Witness ==
    /\ parsed.done
    /\ Occurrences(source_text) = 1
    /\ parsed.post.body_text = source_text
    /\ Len(source_text) > 3

\* C4: with two or more delimiter occurrences (more than two segments) the
\* front matter is the text between the first two occurrences and the body
\* is what follows the second occurrence with the later delimiters taken
\* out; otherwise front matter is absent and the body is the whole input.
C4_FrontMatterAndBody ==
    parsed.done =>
        LET ds == DelimStarts(source_text, 1) IN
        IF Len(ds) >= 2
        THEN /\ parsed.post.front_matter =
                    Some(SubSeq(source_text, ds[1] + 3, ds[2] - 1))
             /\ parsed.post.body_text = Undelimited(source_text, ds[2] + 3)
        ELSE /\ parsed.post.front_matter = None
             /\ parsed.post.body_text = source_text

C4_Witness ==
    /\ parsed.done
    /\ Occurrences(source_text) = 3
    /\ parsed.post.front_matter = Some(<<"a">>)
    /\ parsed.post.body_text = <<"b", "a">>

-----------------------------------------------------------------------------
(* Directory scan of compile: read_file and read_dir *)

Children(tree, d) ==
    {p \in DOMAIN tree : Len(p) = Len(d) + 1 /\ StartsWith(p, d)}

Below(tree, d) ==
    {p \in DOMAIN tree : Len(p) > Len(d) /\ StartsWith(p, d)}

RelativeTo(p, root) == SubSeq(p, Len(root) + 1, Len(p))

Name(p) == p[Len(p)]

\* The children of d as the directory lists them: `order` ranks all paths.
Listing(tree, d, order) ==
    SelectSeq(order, LAMBDA p : p \in Children(tree, d))

\* d.rglob(pattern) for a relative, non-empty pattern: the entries below d
\* whose last components match the pattern's components one by one.
RGlob(tree, d, pattern) ==
    LET parts == Split(pattern, SEP)
        k     == Len(parts)
    IN {q \in Below(tree, d) :
           LET rel == RelativeTo(q, d) IN
           /\ Len(rel) >= k
           /\ \A i \in 1..k : FnMatch(rel[Len(rel) - k + i], parts[i])}

\* exclude_paths of read_dir (lines 201-203).
ExcludePaths(tree, d, patterns) ==
    UNION {RGlob(tree, d, patterns[i]) : i \in 1..Len(patterns)}

\* A Python dict in insertion order: a sequence of [key, value].
DictHas(dic, k) == \E i \in 1..Len(dic) : dic[i].key = k

DictSet(dic, k, v) ==
    IF DictHas(dic, k)
    THEN [i \in 1..Len(dic) |->
            IF dic[i].key = k THEN [key |-> k, value |-> v] ELSE dic[i]]
    ELSE Append(dic, [key |-> k, value |-> v])

DictKeys(dic) == {dic[i].key : i \in 1..Len(dic)}

\* The keys of a dict in the order of its iteration.
KeyOrder(dic) == [i \in 1..Len(dic) |-> dic[i].key]

NoRoot == [some |-> FALSE, path |-> <<>>]
Root(p) == [some |-> TRUE, path |-> p]

\* The serializer argument: the identity for templates, serialize_post for
\* content items.
Deserialize(ser, data) ==
    IF ser = "post" THEN serialize_post(data.text, data.yaml) ELSE data

\* read_file (lines 192-198).  Without a root the name is taken from
\* f.absolue(), an attribute Path does not have.
read_fileMutant(tree, f, acc, root, ser) ==
    IF ~tree[f].perm THEN acc
    ELSE IF ~root.some THEN [acc EXCEPT !.err = "AttributeError"]
    ELSE [acc EXCEPT !.dic =
            DictSet(acc.dic, JoinWith(SEP, RelativeTo(f, root.path)),
                    Deserialize(ser, tree[f].data))]
read_file(tree, f, acc, root, ser) ==
    IF ~tree[f].perm THEN [acc EXCEPT !.err = "PermissionError"]
    ELSE IF ~root.some THEN [acc EXCEPT !.err = "AttributeError"]
    ELSE [acc EXCEPT !.dic =
            DictSet(acc.dic, JoinWith(SEP, RelativeTo(f, root.path)),
                    Deserialize(ser, tree[f].data))]

\* read_dir (lines 199-213); the recursive call passes no root.
RECURSIVE read_dir(_, _, _, _, _, _, _, _)
RECURSIVE ReadEntries(_, _, _, _, _, _, _, _, _, _)
ReadEntries(tree, order, patterns, entries, i, acc, root, file_ext, ser, excl) ==
    IF i > Len(entries) \/ acc.err # "" THEN acc
    ELSE LET f == entries[i]
             next ==
               IF f \in excl THEN acc
               ELSE IF tree[f].kind = "file"
                    THEN IF ~file_ext.some \/ EndsWith(Name(f), file_ext.text)
                         THEN read_file(tree, f, acc, root, ser)
                         ELSE acc
               ELSE read_dir(tree, order, patterns, f, acc, NoRoot, file_ext, ser)
         IN ReadEntries(tree, order, patterns, entries, i + 1, next, root,
                        file_ext, ser, excl)

read_dir(tree, order, patterns, d, acc, root, file_ext, ser) ==
    IF d \notin DOMAIN tree \/ tree[d].kind # "dir"
    THEN [acc EXCEPT !.err = "AssertionError"]
    ELSE ReadEntries(tree, order, patterns, Listing(tree, d, order), 1, acc,
                     root, file_ext, ser, ExcludePaths(tree, d, patterns))

EmptyScan == [dic |-> <<>>, err |-> ""]

EXT_MD == Some(<<".", "m", "d">>)

-----------------------------------------------------------------------------
(* Copy paths of compile: shutil.copytree, shutil.copyfile *)

Prefixes(p) == {SubSeq(p, 1, n) : n \in 0..Len(p)}

\* os.makedirs(dst, exist_ok=True) in the output tree.
MakeDirs(out, dst) ==
    [q \in DOMAIN out \cup Prefixes(dst) |->
        IF q \in DOMAIN out THEN out[q] ELSE Dir]

\* shutil.ignore_patterns(*patterns): the names of a directory that match.
IgnoredName(patterns, name) ==
    \E i \in 1..Len(patterns) : FnMatch(name, patterns[i])

\* shutil.copytree(src, dst, dirs_exist_ok=True, ignore=ignore_patterns(...)):
\* a file that cannot be read is reported once everything else was copied.
RECURSIVE copytree(_, _, _, _, _, _)
RECURSIVE CopyEntries(_, _, _, _, _, _, _)
CopyEntries(tree, order, patterns, entries, i, acc, dst) ==
    IF i > Len(entries) THEN acc
    ELSE LET c == entries[i]
             next ==
               IF IgnoredName(patterns, Name(c)) THEN acc
               ELSE IF tree[c].kind = "dir"
                    THEN copytree(tree, order, patterns, c, acc, Append(dst, Name(c)))
               ELSE IF ~tree[c].perm THEN [acc EXCEPT !.err = "Error"]
               ELSE [acc EXCEPT !.out =
                       (Append(dst, Name(c)) :> File(tree[c].data, TRUE)) @@ acc.out]
         IN CopyEntries(tree, order, patterns, entries, i + 1, next, dst)

copytree(tree, order, patterns, src, acc, dst) ==
    CopyEntries(tree, order, patterns, Listing(tree, src, order), 1,
                [acc EXCEPT !.out = MakeDirs(acc.out, dst)], dst)

\* shutil.copyfile(src, dst).
copyfile(tree, src, acc, dst) ==
    IF src \notin DOMAIN tree THEN [acc EXCEPT !.err = "FileNotFoundError"]
    ELSE IF ~tree[src].perm THEN [acc EXCEPT !.err = "PermissionError"]
    ELSE IF Parent(dst) \notin DOMAIN acc.out
         THEN [acc EXCEPT !.err = "FileNotFoundError"]
    ELSE [acc EXCEPT !.out = (dst :> File(tree[src].data, TRUE)) @@ acc.out]

\* One iteration of the copy-paths loop (lines 275-292).
CopyPath(tree, order, patterns, path_name, acc) ==
    LET src_path == Split(path_name, SEP) IN
    IF src_path \in DOMAIN tree /\ tree[src_path].kind = "dir"
    THEN copytree(tree, order, patterns, src_path, acc, src_path)
    ELSE IF \E i \in 1..Len(patterns) : FnMatch(path_name, patterns[i])
         THEN acc
    ELSE copyfile(tree, src_path, acc, src_path)

RECURSIVE CopyPaths(_, _, _, _, _, _)
CopyPaths(tree, order, patterns, copy_path_names, i, acc) ==
    IF i > Len(copy_path_names) \/ acc.err # "" THEN acc
    ELSE CopyPaths(tree, order, patterns, copy_path_names, i + 1,
                   CopyPath(tree, order, patterns, copy_path_names[i], acc))

EmptyOut == [out |-> EmptyDict, err |-> ""]

-----------------------------------------------------------------------------
(* One project, one list of ignore patterns: scanned, watched and copied *)

POSTS == <<"p", "o", "s", "t", "s">>
TXT_X == <<"x">>

\* The content of a post file: its text and what yaml makes of it.
PostData(text, yaml) == [text |-> text, yaml |-> yaml]
PlainPost == PostData(TXT_X, YamlDoc(MapMeta([title |-> TITLE_HI])))

\* posts/ with up to two content files.
IgFiles == {<<POSTS, A_MD>>, <<POSTS, B_MD>>}
IgOrder == <<<<POSTS>>, <<POSTS, A_MD>>, <<POSTS, B_MD>>>>
IgTrees ==
    {(<<POSTS>> :> Dir) @@ [p \in S |-> File(PlainPost, TRUE)] : S \in SUBSET IgFiles}

PAT_NAME    == A_MD                                      \* "a.md"
PAT_STAR_A  == <<"*">> \o A_MD                           \* "*a.md"
PAT_ALL_MD  == <<"*", ".", "m", "d">>                    \* "*.md"
PAT_IN_DIR  == POSTS \o SEP \o <<"*">>                   \* "posts/*"
PAT_ANY_DIR == <<"*", "/">> \o POSTS \o <<"/", "*">>     \* "*/posts/*"
PAT_Q       == <<"?", ".", "m", "d">>                    \* "?.md"
IgPatterns == {PAT_NAME, PAT_STAR_A, PAT_ALL_MD, PAT_IN_DIR, PAT_ANY_DIR, PAT_Q}
IgPatternLists == {<<>>} \cup {<<p>> : p \in IgPatterns}

IgNotDone == [done |-> FALSE, files |-> {}, err |-> ""]
IgDone(files, err) == [done |-> TRUE, files |-> files, err |-> err]

IgInit ==
    ig \in [tree : IgTrees, patterns : IgPatternLists,
            platform : {"win32", "posix"},
            scan : {IgNotDone}, watch : {IgNotDone}, copy : {IgNotDone}]

\* The scan of posts/ as compile makes it (line 216).
IgScan ==
    /\ ~ig.scan.done
    /\ LET r == read_dir(ig.tree, IgOrder, ig.patterns, <<POSTS>>, EmptyScan,
                         Root(<<POSTS>>), EXT_MD, "post")
       IN ig' = [ig EXCEPT !.scan =
                   IgDone({f \in IgFiles : DictHas(r.dic, Name(f))}, r.err)]
    /\ UNCHANGED notIg

\* A dirty() call of a watcher over the working directory (line 160).
IgWatch ==
    /\ ~ig.watch.done
    /\ \E r \in DirtyOutcomes(EmptyDict, ig.tree, ig.patterns, ig.platform) :
            ig' = [ig EXCEPT !.watch =
                     IgDone({f \in IgFiles : PathStr(f) \in DOMAIN r.path_hash},
                            IF r.raised THEN "IsADirectoryError" ELSE "")]
    /\ UNCHANGED notIg

\* The copy-paths loop for copy-paths: [posts] (lines 272-292).
IgCopy ==
    /\ ~ig.copy.done
    /\ LET r == CopyPaths(ig.tree, IgOrder, ig.patterns, <<POSTS>>, 1,
                          [EmptyOut EXCEPT !.out = (<<>> :> Dir)])
       IN ig' = [ig EXCEPT !.copy =
                   IgDone({f \in IgFiles : f \in DOMAIN r.out}, r.err)]
    /\ UNCHANGED notIg

IgNext == IgScan \/ IgWatch \/ IgCopy

\* C8: with one list of ignore patterns, a content file is left out of the
\* compile scan exactly when change detection leaves it out and exactly
\* when the copy of its copy-path leaves it out.
C8_UniformExclusion ==
    (/\ ig.scan.done /\ ig.watch.done /\ ig.copy.done
     /\ ig.scan.err = "" /\ ig.watch.err = "" /\ ig.copy.err = "") =>
        \A f \in DOMAIN ig.tree \cap IgFiles :
            /\ (f \in ig.scan.files) <=> (f \in ig.watch.files)
            /\ (f \in ig.scan.files) <=> (f \in ig.copy.files)

-----------------------------------------------------------------------------
(* Main: the project, the configuration, the extensions *)

TEMPLATES == <<"t", "e", "m", "p", "l", "a", "t", "e", "s">>
DRAFTS    == <<"d", "r", "a", "f", "t", "s">>
ASSETS    == <<"a", "s", "s", "e", "t", "s">>
SITE_YAML == <<"s", "i", "t", "e", ".", "y", "a", "m", "l">>
I_HTML    == <<"i", ".", "h", "t", "m", "l">>
J_HTML    == <<"j", ".", "h", "t", "m", "l">>
C_CSS     == <<"c", ".", "c", "s", "s">>

OptNone == [some |-> FALSE, val |-> <<>>]
Opt(v) == [some |-> TRUE, val |-> v]

\* self.site_data: never assigned, None (an empty file), or the mapping with
\* the keys "ignore-patterns", "copy-paths" and "markdown-extensions".  A
\* site.yaml that yaml cannot load holds SiteMalformed.
SiteUnset == [state |-> "unset", ignore |-> OptNone, copy |-> OptNone, md |-> OptNone]
SiteNoneValue == [state |-> "none", ignore |-> OptNone, copy |-> OptNone, md |-> OptNone]
SiteMalformed == [state |-> "error", ignore |-> OptNone, copy |-> OptNone, md |-> OptNone]
SiteDict(ignore, copy, md) ==
    [state |-> "dict", ignore |-> ignore, copy |-> copy, md |-> md]

\* The truth value of self.site_data: None and the empty mapping are false.
SiteTruthy(sd) ==
    sd.state = "dict" /\ (sd.ignore.some \/ sd.copy.some \/ sd.md.some)

\* Lines 140-143 and 151-154.
IgnorePatternsOf(sd) ==
    IF SiteTruthy(sd) /\ sd.ignore.some THEN sd.ignore.val ELSE <<>>

\* Lines 137-139 and 148-150: site_data is assigned only if site.yaml exists.
LoadSiteFile(tree, current) ==
    IF <<SITE_YAML>> \in DOMAIN tree THEN tree[<<SITE_YAML>>].data ELSE current

\* load_user_extensions (lines 296-356).  `prov` is what the environment
\* holds: whether requirements.txt exists, the state of the project's venv,
\* whether creating it succeeds; `module` is the project's extensions module.
\* pip runs under Popen (lines 344-347) and its exit status, prov.installed,
\* is not read.
load_user_extensions(prov, module) ==
    IF prov.requirements /\ ~prov.venv /\ ~prov.venv_created
    THEN [err |-> "CalledProcessError", classes |-> <<>>]
    ELSE IF prov.requirements /\ prov.venv /\ ~prov.venv_complete
    THEN [err |-> "AssertionError", classes |-> <<>>]
    ELSE IF ~module.present
    THEN [err |-> "ModuleNotFoundError", classes |-> <<>>]
    ELSE [err |-> "", classes |-> module.classes]

\* How a compile cycle failed: the phase, what raised, the exception and the
\* index of the item at hand.
NoFail == [phase |-> "", by |-> "", exc |-> "", index |-> 0]
Fail(phase, by, exc, index) ==
    [phase |-> phase, by |-> by, exc |-> exc, index |-> index]

\* Main.__init__ (lines 111-145): how it ends and what it leaves.
\* site-compiler.py (lines 92-119) asserts the posts directory and has no
\* extensions.
MainConstructor(prog, tree, prov, module) ==
    LET sd == LoadSiteFile(tree, SiteUnset) IN
    IF <<TEMPLATES>> \notin DOMAIN tree
    THEN [status |-> "exit(-1)", site_data |-> SiteUnset, classes |-> <<>>]
    ELSE IF sd.state = "error"
    THEN [status |-> "YAMLError", site_data |-> SiteUnset, classes |-> <<>>]
    ELSE IF sd.state = "unset"
    THEN [status |-> "AttributeError", site_data |-> sd, classes |-> <<>>]
    ELSE IF tree[<<TEMPLATES>>].kind # "dir"
    THEN [status |-> "AssertionError", site_data |-> sd, classes |-> <<>>]
    ELSE IF prog # "blogger"
    THEN [status |-> IF <<POSTS>> \in DOMAIN tree /\ tree[<<POSTS>>].kind = "dir"
                     THEN "" ELSE "AssertionError",
          site_data |-> sd, classes |-> <<>>]
    ELSE LET ext == load_user_extensions(prov, module) IN
         [status |-> ext.err, site_data |-> sd, classes |-> ext.classes]

-----------------------------------------------------------------------------
(* Main.compile *)

\* A hook's return value and its truth value.
HookReturns == {"None", "False", "True"}
Truthy(v) == v = "True"

\* The truth value of post.metadata: None and the empty mapping are false.
MetaTruthy(md) ==
    \/ md.kind = "scalar"
    \/ md.kind = "map" /\ DOMAIN md.map # {}

\* jinja's render and markdown's conversion are kept as what they were
\* applied to.
JinjaRender(text, sd, variables) ==
    <<[jinja |-> text, site |-> sd, variables |-> variables]>>
Markdown(text, extensions) ==
    <<[markdown |-> text, extensions |-> extensions]>>

\* str.replace(" ", "-").
Hyphenate(s) == [i \in 1..Len(s) |-> IF s[i] = " " THEN "-" ELSE s[i]]

\* str.strip(chars): leading and trailing characters of the set removed.
RECURSIVE LStrip(_, _)
LStrip(s, chars) ==
    IF s # <<>> /\ Head(s) \in chars THEN LStrip(Tail(s), chars) ELSE s
RECURSIVE RStrip(_, _)
RStrip(s, chars) ==
    IF s # <<>> /\ s[Len(s)] \in chars
    THEN RStrip(SubSeq(s, 1, Len(s) - 1), chars) ELSE s
Strip(s, chars) == RStrip(LStrip(s, chars), chars)

\* Lines 231-240: the converter extensions of the site and of the post.
MarkdownExtensions(prog, sd, md) ==
    (IF prog = "blogger" THEN <<"StrikeThroughExtension">> ELSE <<>>)
      \o (IF SiteTruthy(sd) /\ sd.md.some THEN sd.md.val ELSE <<>>)
      \o (IF MetaTruthy(md) /\ md.kind = "map" /\ "markdown-extensions" \in DOMAIN md.map
          THEN md.map["markdown-extensions"] ELSE <<>>)

HookCallsMutant(hook, n, raisedAt, arg) ==
    [i \in 1..(IF raisedAt = 0 THEN n ELSE raisedAt) |->
        [hook |-> hook, inst |-> (IF raisedAt = 0 THEN n ELSE raisedAt) + 1 - i,
         arg |-> arg]]
HookCalls(hook, n, raisedAt, arg) ==
    [i \in 1..(IF raisedAt = 0 THEN n ELSE raisedAt) |->
        [hook |-> hook, inst |-> i, arg |-> arg]]

\* The compile-time view of a content item: the Post of serialize_post and
\* the attributes compile sets on it.
Item(post) == [post |-> post, name |-> None, toc |-> None,
               attrs |-> [k \in {} |-> <<>>]]

\* Lines 243-246.
TocFallback(name) == Hyphenate(Strip(name, {".", "m", "d"}))
TocOf(name, md) ==
    IF "title" \in DOMAIN md.map THEN Hyphenate(md.map["title"])
    ELSE TocFallback(name)

\* What line 243 does with the metadata: None is not iterable.
TitleLookupMutant(md) == IF md.kind = "map" THEN "" ELSE "AttributeError"
TitleLookup(md) ==
    IF md.kind = "none" THEN "TypeError"
    ELSE IF md.kind = "scalar" THEN "AttributeError"
    ELSE ""

\* One iteration of the per-post loop (lines 222-252).  n instances; `pre`
\* and `post` name the instance whose hook raises (0: none), `ok` tells
\* whether jinja renders the body.
RenderOnePost(prog, name, item, sd, n, pre, ok, post, index) ==
    LET md   == item.post.metadata
        log1 == HookCalls("pre_render_post", n, pre, name)
        text == JinjaRender(item.post.body_text, sd,
                            IF MetaTruthy(md) THEN md.map ELSE [k \in {} |-> <<>>])
        html == Markdown(text, MarkdownExtensions(prog, sd, md))
        s3   == [item EXCEPT !.post.rendered_text = text,
                             !.post.html = html,
                             !.name = Some(name)]
        s5   == [s3 EXCEPT !.toc = Some(TocOf(name, md)), !.attrs = md.map]
        log2 == log1 \o <<[hook |-> "render", inst |-> 0, arg |-> name]>>
    IN
    IF pre # 0
    THEN [item |-> item, fail |-> Fail("posts", "hook", "Exception", index), log |-> log1]
    ELSE IF MetaTruthy(md) /\ md.kind = "scalar"
    THEN [item |-> item, fail |-> Fail("posts", "metadata", "TypeError", index), log |-> log1]
    ELSE IF ~ok
    THEN [item |-> item, fail |-> Fail("posts", "render", "TemplateError", index), log |-> log1]
    ELSE IF TitleLookup(md) # ""
    THEN [item |-> s3, fail |-> Fail("posts", "metadata", TitleLookup(md), index), log |-> log2]
    ELSE IF post # 0
    THEN [item |-> s5, fail |-> Fail("posts", "hook", "Exception", index),
          log |-> log2 \o HookCalls("post_render_post", n, post, name)]
    ELSE [item |-> s5, fail |-> NoFail,
          log |-> log2 \o HookCalls("post_render_post", n, 0, name)]

\* Line 261: any([r for r in run_user_extensions_for_template()]).
AnySkipsMutant(answers) ==
    answers # <<>> /\ \A i \in 1..Len(answers) : Truthy(answers[i])
AnySkips(answers) == \E i \in 1..Len(answers) : Truthy(answers[i])

\* What the aggregate phase writes for a template (line 265).
RenderedTemplate(name, text, sd, posts) ==
    File([template |-> name, text |-> text, site |-> sd,
          posts |-> [i \in 1..Len(posts) |-> posts[i].value]], TRUE)

\* out.open("w") and the write (lines 270-271): what the file held is gone.
OpenWMutant(tree, path, file) ==
    (path :> IF path \in DOMAIN tree
             THEN File(<<tree[path].data, file.data>>, TRUE) ELSE file) @@ tree
OpenW(tree, path, file) == (path :> file) @@ tree

\* One iteration of the per-template loop (lines 253-271).  `loaded` and
\* `ok` tell whether jinja finds and renders the template, `raisedAt` names
\* the instance whose should_skip_template raises (0: none), `answers` are
\* the values the instances return.
RenderOneTemplate(name, text, sd, posts, tree, n, loaded, raisedAt, answers, ok, index) ==
    LET asks == HookCalls("should_skip_template", n, raisedAt, name)
        path == Split(name, SEP)
        made == IF <<>> \in DOMAIN tree THEN tree ELSE (<<>> :> Dir) @@ tree
        log2 == asks \o <<[hook |-> "render", inst |-> 0, arg |-> name]>>
    IN
    IF ~loaded
    THEN [out |-> tree, state |-> "failed", fail |-> Fail("templates", "template", "TemplateNotFound", index),
          log |-> <<>>]
    ELSE IF raisedAt # 0
    THEN [out |-> tree, state |-> "failed", fail |-> Fail("templates", "hook", "Exception", index),
          log |-> asks]
    ELSE IF AnySkips(answers)
    THEN [out |-> tree, state |-> "skipped", fail |-> NoFail, log |-> asks]
    ELSE IF ~ok
    THEN [out |-> tree, state |-> "failed", fail |-> Fail("templates", "render", "TemplateError", index),
          log |-> asks]
    ELSE IF Parent(path) \notin DOMAIN made
    THEN [out |-> made, state |-> "failed", fail |-> Fail("templates", "write", "FileNotFoundError", index),
          log |-> log2]
    ELSE [out |-> OpenW(made, path, RenderedTemplate(name, text, sd, posts)),
          state |-> "written", fail |-> NoFail,
          log |-> log2 \o <<[hook |-> "write", inst |-> 0, arg |-> name]>>]

\* The scans of lines 214-221.
ScanProject(prog, tree, order, patterns, drafts) ==
    LET t == read_dir(tree, order, patterns, <<TEMPLATES>>, EmptyScan,
                      Root(<<TEMPLATES>>), None, "raw")
        p == IF t.err = "" /\ (<<POSTS>> \in DOMAIN tree \/ prog # "blogger")
             THEN read_dir(tree, order, patterns, <<POSTS>>, EmptyScan,
                           Root(<<POSTS>>), EXT_MD, "post")
             ELSE EmptyScan
        d == IF p.err = "" /\ drafts /\ (<<DRAFTS>> \in DOMAIN tree \/ prog # "blogger")
             THEN read_dir(tree, order, patterns, <<DRAFTS>>, p,
                           Root(<<DRAFTS>>), EXT_MD, "post")
             ELSE p
    IN [templates |-> t.dic,
        posts |-> [i \in 1..Len(d.dic) |->
                     [key |-> d.dic[i].key, value |-> Item(d.dic[i].value)]],
        err |-> IF t.err # "" THEN t.err ELSE d.err]

\* initialize_user_extensions (lines 358-360): one fresh instance per class.
FreshInstancesMutant(classes, n, sd) ==
    [i \in 1..Len(classes) |-> [class |-> classes[i], cycle |-> 1, site_data |-> sd]]
FreshInstances(classes, n, sd) ==
    [i \in 1..Len(classes) |-> [class |-> classes[i], cycle |-> n, site_data |-> sd]]

-----------------------------------------------------------------------------
(* The compile and run commands *)

\* The order in which iterdir lists the entries of the project.
TreeOrder ==
    <<<<SITE_YAML>>, <<C_CSS>>, <<TEMPLATES>>, <<POSTS>>, <<DRAFTS>>,
      <<TEMPLATES, I_HTML>>, <<TEMPLATES, J_HTML>>,
      <<POSTS, A_MD>>, <<POSTS, B_MD>>, <<DRAFTS, A_MD>>,
      <<TEMPLATES, D>>, <<POSTS, D>>, <<TEMPLATES, D, J_HTML>>, <<POSTS, D, B_MD>>,
      <<POSTS, DA_MD>>, <<POSTS, A_B_MD>>, <<DRAFTS, B_MD>>>>
Reverse(s) == [i \in 1..Len(s) |-> s[Len(s) + 1 - i]]
ScanOrders == {TreeOrder, Reverse(TreeOrder)}

\* The except clause of line 182 covers the compile of a detected change in
\* blogger.py; site-compiler.py (line 147) has none, and neither has the
\* first compile of run (line 157) nor the compile command.
Caught == ctx = "watch" /\ program = "blogger"

\* pc within a compile cycle.
InCompile(at) == at \in {"compile", "posts", "templates", "copy", "finalize"}

\* Where the loops of compile resume: the next post, the next template, or
\* the copy paths.
PhaseFrom(posts, templates, i, j) ==
    IF i <= Len(posts) THEN "posts"
    ELSE IF j <= Len(templates) THEN "templates"
    ELSE "copy"

\* The step of a cycle ends: on, or out with the exception.
AfterMutant(fail, on) ==
    /\ cfail' = fail
    /\ pc' = IF fail = NoFail THEN on
             ELSE IF Caught /\ fail.by # "hook" THEN "watching" ELSE "exited"
    /\ status' = IF fail # NoFail /\ ~(Caught /\ fail.by # "hook") THEN fail.exc
                 ELSE status
After(fail, on) ==
    /\ cfail' = fail
    /\ pc' = IF fail = NoFail THEN on ELSE IF Caught THEN "watching" ELSE "exited"
    /\ status' = IF fail # NoFail /\ ~Caught THEN fail.exc ELSE status

\* Main(args) (lines 109-145).
MainInit ==
    /\ pc = "start"
    /\ LET r == MainConstructor(program, fs, ext_env, ext_env) IN
       /\ site_data' = r.site_data
       /\ main_ignore_patterns' = IgnorePatternsOf(r.site_data)
       /\ user_extension_classes' = r.classes
       /\ status' = IF r.status = "" THEN status ELSE r.status
       /\ pc' = IF r.status = "" THEN "compile" ELSE "exited"
       /\ ctx' = IF cmd = "compile" THEN "oneshot" ELSE "initial"
    /\ UNCHANGED <<program, prev, cmd, args_drafts, ext_env, user_extension_instances,
                   cycle, templates_dict, posts_dict, pi, ti, out_dir, out_dir0, cfail,
                   thandled, log, quit, server, edits>>
    /\ UNCHANGED notMain

\* The head of compile (lines 188-221): fresh extension instances, then the
\* scans.  A constructor of a user extension may raise.
BeginCompile ==
    /\ pc = "compile"
    /\ cycle' = cycle + 1
    /\ log' = <<>>
    /\ thandled' = <<>>
    /\ pi' = 1
    /\ ti' = 1
    /\ out_dir0' = out_dir
    /\ \E ctor \in BOOLEAN, order \in ScanOrders :
         LET scan == ScanProject(program, fs, order, main_ignore_patterns, args_drafts)
             fail == IF ~ctor /\ user_extension_classes # <<>>
                     THEN Fail("init", "hook", "Exception", 0)
                     ELSE IF scan.err # "" THEN Fail("scan", "scan", scan.err, 0)
                     ELSE NoFail
         IN /\ user_extension_instances' =
                 IF ~ctor /\ user_extension_classes # <<>>
                 THEN user_extension_instances
                 ELSE FreshInstances(user_extension_classes, cycle + 1, site_data)
            /\ templates_dict' = IF fail = NoFail THEN scan.templates ELSE <<>>
            /\ posts_dict' = IF fail = NoFail THEN scan.posts ELSE <<>>
            /\ After(fail, PhaseFrom(scan.posts, scan.templates, 1, 1))
    /\ UNCHANGED <<program, prev, cmd, ctx, site_data, main_ignore_patterns, args_drafts,
                   ext_env, user_extension_classes, out_dir, quit, server, edits>>
    /\ UNCHANGED notMain

\* One iteration of the per-post loop.
RenderPost ==
    /\ pc = "posts"
    /\ \E pre \in 0..Len(user_extension_instances),
          post \in 0..Len(user_extension_instances),
          ok \in BOOLEAN :
         LET r == RenderOnePost(program, posts_dict[pi].key, posts_dict[pi].value,
                                site_data, Len(user_extension_instances),
                                pre, ok, post, pi)
         IN /\ posts_dict' = [posts_dict EXCEPT ![pi].value = r.item]
            /\ log' = log \o r.log
            /\ pi' = IF r.fail = NoFail THEN pi + 1 ELSE pi
            /\ After(r.fail, PhaseFrom(posts_dict, templates_dict, pi + 1, ti))
    /\ UNCHANGED <<program, prev, cmd, ctx, site_data, main_ignore_patterns, args_drafts,
                   ext_env, user_extension_classes, user_extension_instances,
                   cycle, templates_dict, ti, out_dir, out_dir0, thandled, quit, server, edits>>
    /\ UNCHANGED notMain

\* One iteration of the per-template loop.  jinja loads the template from
\* the templates directory as it is now.
RenderTemplate ==
    /\ pc = "templates"
    /\ LET name == templates_dict[ti].key
           path == <<TEMPLATES>> \o Split(name, SEP)
           n    == Len(user_extension_instances)
       IN \E loaded \in (IF path \in DOMAIN fs THEN BOOLEAN ELSE {FALSE}),
             ok \in BOOLEAN,
             raisedAt \in 0..n,
             answers \in [1..n -> HookReturns] :
            LET r == RenderOneTemplate(name,
                                       IF path \in DOMAIN fs THEN fs[path].data ELSE <<>>,
                                       site_data, posts_dict, out_dir, n, loaded,
                                       raisedAt, answers, ok, ti)
            IN /\ out_dir' = r.out
               /\ log' = log \o r.log
               /\ thandled' = Append(thandled,
                     [name |-> name, state |-> r.state,
                      answers |-> IF loaded /\ raisedAt = 0 THEN answers ELSE <<>>])
               /\ ti' = IF r.fail = NoFail THEN ti + 1 ELSE ti
               /\ After(r.fail, PhaseFrom(posts_dict, templates_dict, pi, ti + 1))
    /\ UNCHANGED <<program, prev, cmd, ctx, site_data, main_ignore_patterns, args_drafts,
                   ext_env, user_extension_classes, user_extension_instances,
                   cycle, templates_dict, posts_dict, pi, out_dir0, quit, server, edits>>
    /\ UNCHANGED notMain

\* The copy-paths loop in the log of the cycle: entered or not (line 272).
CopyCalls(sd) ==
    IF SiteTruthy(sd) /\ sd.copy.some
    THEN <<[hook |-> "copy", inst |-> 0, arg |-> <<>>]>> ELSE <<>>

\* The copy-paths loop (lines 272-292); site-compiler.py copies without
\* ignore patterns.
CopyStep ==
    /\ pc = "copy"
    /\ LET r == IF SiteTruthy(site_data) /\ site_data.copy.some
                THEN CopyPaths(fs, TreeOrder,
                               IF program = "blogger" THEN main_ignore_patterns ELSE <<>>,
                               site_data.copy.val, 1, [out |-> out_dir, err |-> ""])
                ELSE [out |-> out_dir, err |-> ""]
       IN /\ out_dir' = r.out
          /\ log' = log \o CopyCalls(site_data)
          /\ After(IF r.err = "" THEN NoFail ELSE Fail("copy", "copy", r.err, 0),
                   "finalize")
    /\ UNCHANGED <<program, prev, cmd, ctx, site_data, main_ignore_patterns, args_drafts,
                   ext_env, user_extension_classes, user_extension_instances,
                   cycle, templates_dict, posts_dict, pi, ti, out_dir0, thandled,
                   quit, server, edits>>
    /\ UNCHANGED notMain

\* The finalize hooks (lines 293-294) and the return of compile: to the
\* process exit, to the start of the server, or back to the watch loop.
Finalize ==
    /\ pc = "finalize"
    /\ \E raisedAt \in 0..Len(user_extension_instances) :
         /\ log' = log \o HookCalls("finalize", Len(user_extension_instances),
                                    raisedAt, <<>>)
         /\ IF raisedAt # 0
            THEN /\ After(Fail("finalize", "hook", "Exception", raisedAt), "")
                 /\ UNCHANGED prev
            ELSE /\ cfail' = NoFail
                 /\ prev' = IF ctx = "oneshot"
                            THEN [cycle |-> cycle, posts |-> KeyOrder(posts_dict),
                                  templates |-> KeyOrder(templates_dict),
                                  handled |-> thandled, out |-> out_dir]
                            ELSE prev
                 /\ pc' = IF ctx = "oneshot" THEN "exited"
                          ELSE IF ctx = "initial" THEN "serve" ELSE "watching"
                 /\ status' = IF ctx = "oneshot" THEN "exit(0)" ELSE status
    /\ UNCHANGED <<program, cmd, ctx, site_data, main_ignore_patterns, args_drafts,
                   ext_env, user_extension_classes, user_extension_instances,
                   cycle, templates_dict, posts_dict, pi, ti, out_dir, out_dir0, thandled,
                   quit, server, edits>>
    /\ UNCHANGED notMain

CompileNext ==
    MainInit \/ BeginCompile \/ RenderPost \/ RenderTemplate \/ CopyStep \/ Finalize

-----------------------------------------------------------------------------
(* The projects compiled *)

FM_TEXT == DELIM \o <<"a">> \o DELIM \o <<"b">>
TitledPost    == PostData(FM_TEXT, YamlDoc(MapMeta([title |-> TITLE_HI])))
UntitledPost  == PostData(FM_TEXT, YamlDoc(MapMeta([date |-> <<"d">>])))
MalformedPost == PostData(FM_TEXT, YamlError)
ScalarPost    == PostData(<<"b">>, YamlDoc(ScalarMeta))

TemplateTree(names) ==
    (<<TEMPLATES>> :> Dir) @@
    [p \in {<<TEMPLATES, n>> : n \in names} |-> File(<<"T">>, TRUE)]

PostTree(posts) ==
    (<<POSTS>> :> Dir) @@
    [p \in {<<POSTS, n>> : n \in DOMAIN posts} |-> File(posts[Name(p)], TRUE)]

SiteTree(sd) == (<<SITE_YAML>> :> File(sd, TRUE))

AssetTree == (<<C_CSS>> :> File(<<"c">>, TRUE))

SiteCopies == SiteDict(OptNone, Opt(<<C_CSS>>), OptNone)

CompilePostSets ==
    {(A_MD :> a) : a \in {TitledPost, UntitledPost, MalformedPost, ScalarPost}}
      \cup {(A_MD :> a) @@ (B_MD :> b) :
              a \in {TitledPost, UntitledPost, MalformedPost, ScalarPost},
              b \in {TitledPost, MalformedPost}}

\* Projects with a subdirectory under a scanned root: empty, or with a file.
NestedTrees ==
    {TemplateTree({I_HTML}) @@ PostTree((A_MD :> TitledPost))
       @@ SiteTree(SiteNoneValue) @@ n :
        n \in {(<<POSTS, D>> :> Dir),
               (<<POSTS, D>> :> Dir) @@ (<<POSTS, D, B_MD>> :> File(TitledPost, TRUE)),
               (<<TEMPLATES, D>> :> Dir)
                  @@ (<<TEMPLATES, D, J_HTML>> :> File(<<"T">>, TRUE))}}

\* Projects with a file the process may not read, next to one it may.
UnreadableTrees ==
    {TemplateTree({I_HTML}) @@ SiteTree(SiteNoneValue) @@ n :
        n \in {(<<POSTS>> :> Dir) @@ (<<POSTS, A_MD>> :> File(TitledPost, TRUE))
                  @@ (<<POSTS, B_MD>> :> File(TitledPost, FALSE)),
               (<<TEMPLATES, J_HTML>> :> File(<<"T">>, FALSE))
                  @@ PostTree((A_MD :> TitledPost))}}

\* A project whose posts have names and titles with spaces, and a name that
\* begins with a character of its suffix.
SpacedTitlePost == PostData(FM_TEXT, YamlDoc(MapMeta([title |-> <<"H", " ", "i">>])))
NamedTrees ==
    {TemplateTree({I_HTML}) @@ SiteTree(SiteNoneValue)
       @@ PostTree((A_MD :> SpacedTitlePost) @@ (DA_MD :> UntitledPost)
                     @@ (A_B_MD :> UntitledPost))}

\* Projects with drafts, one of them at the relative path of a post.
WithDraftsTrees ==
    {TemplateTree({I_HTML}) @@ SiteTree(SiteNoneValue)
       @@ PostTree((A_MD :> TitledPost)) @@ (<<DRAFTS>> :> Dir) @@ d :
        d \in {(<<DRAFTS, A_MD>> :> File(UntitledPost, TRUE)),
               (<<DRAFTS, B_MD>> :> File(UntitledPost, TRUE)),
               EmptyDict}}
      \cup {TemplateTree({I_HTML}) @@ SiteTree(SiteNoneValue)
              @@ PostTree((A_MD :> TitledPost))}

CompileTrees ==
    {TemplateTree({I_HTML})}
      \cup {t @@ p @@ s @@ AssetTree :
              t \in {TemplateTree({I_HTML}), TemplateTree({I_HTML, J_HTML})},
              p \in {EmptyDict} \cup {PostTree(f) : f \in CompilePostSets},
              s \in {EmptyDict, SiteTree(SiteNoneValue), SiteTree(SiteCopies)}}
      \cup {PostTree((A_MD :> TitledPost))}
      \cup NestedTrees
      \cup UnreadableTrees
      \cup NamedTrees

\* What the project holds for the extension host.
NoExtensions == [present |-> FALSE, classes |-> <<>>, requirements |-> FALSE,
                 venv |-> FALSE, venv_created |-> FALSE, venv_complete |-> FALSE,
                 installed |-> TRUE]
Extensions(classes) == [NoExtensions EXCEPT !.present = TRUE, !.classes = classes]
ExtEnvs ==
    {NoExtensions, Extensions(<<>>), Extensions(<<"E1">>), Extensions(<<"E1", "E2">>),
     [Extensions(<<"E1">>) EXCEPT !.requirements = TRUE]}
      \cup {[Extensions(<<"E1">>) EXCEPT !.requirements = TRUE, !.venv_created = TRUE,
                                         !.installed = ok] : ok \in BOOLEAN}

\* No compile command ran to its end yet.
NoPrev == [cycle |-> 0, posts |-> <<>>, templates |-> <<>>, handled |-> <<>>,
           out |-> EmptyDict]

\* Main before its constructor ran.
MainFresh ==
    /\ pc = "start"
    /\ ctx = "oneshot"
    /\ status = "running"
    /\ site_data = SiteUnset
    /\ main_ignore_patterns = <<>>
    /\ user_extension_classes = <<>>
    /\ user_extension_instances = <<>>
    /\ cycle = 0
    /\ templates_dict = <<>>
    /\ posts_dict = <<>>
    /\ pi = 1
    /\ ti = 1
    /\ cfail = NoFail
    /\ thandled = <<>>
    /\ log = <<>>
    /\ quit = FALSE
    /\ server = "none"
    /\ edits = 0
    /\ out_dir0 = out_dir
    /\ prev = NoPrev

CompileInit ==
    /\ program = "blogger"
    /\ cmd = "compile"
    /\ ext_env \in ExtEnvs
    /\ out_dir \in {EmptyDict, (<<>> :> Dir)}
    /\ \/ args_drafts = FALSE /\ fs \in CompileTrees
       \/ args_drafts = TRUE /\ fs \in WithDraftsTrees
    /\ MainFresh

-----------------------------------------------------------------------------
(* Compile: what the claims speak of *)

\* The per-post iteration of post i was entered in this cycle.
Attempted(i) ==
    /\ i \in 1..Len(posts_dict)
    /\ \/ i < pi
       \/ cfail.phase = "posts" /\ cfail.index = i

\* The cycle was aborted by what compile does with the metadata of post i.
AbortedByMetadata(i) ==
    cfail.phase = "posts" /\ cfail.by = "metadata" /\ cfail.index = i

\* C5: a content item whose metadata cannot be parsed has metadata none, and
\* the cycle is not aborted by it: a metadata-less post passes the per-post
\* phase with the toc of its file name, and the cycle goes on.
C5_MetadataLessPostCompiles ==
    \A i \in 1..Len(posts_dict) :
        LET item == posts_dict[i].value IN
        (Attempted(i) /\ item.post.metadata.kind = "none") =>
            /\ ~AbortedByMetadata(i)
            /\ i < pi => item.toc = Some(TocFallback(posts_dict[i].key))

\* What does hold: the parser turns a yaml error into metadata none.
C5_ParserDegrades ==
    \A i \in 1..Len(posts_dict) :
        LET p == <<POSTS, Split(posts_dict[i].key, SEP)[1]>> IN
        (p \in DOMAIN fs /\ fs[p].data.yaml.kind = "error") =>
            posts_dict[i].value.post.metadata = NoneMeta

\* The template of entry e is in the output as this cycle rendered it.
WrittenNow(e) ==
    LET path == Split(e.name, SEP) IN
    /\ path \in DOMAIN out_dir
    /\ out_dir[path].kind = "file"
    /\ out_dir[path].data.template = e.name
    /\ out_dir[path].data.site = site_data
    /\ out_dir[path].data.posts = [k \in 1..Len(posts_dict) |-> posts_dict[k].value]

\* The output holds for the template of entry e what it held when the cycle
\* began.
Untouched(e) ==
    LET path == Split(e.name, SEP) IN
    /\ path \in DOMAIN out_dir <=> path \in DOMAIN out_dir0
    /\ path \in DOMAIN out_dir => out_dir[path] = out_dir0[path]

RenderedNow(e) ==
    \E k \in 1..Len(log) : log[k] = [hook |-> "render", inst |-> 0, arg |-> e.name]

\* C9: of the templates whose iteration of the aggregate phase ran to its
\* end, one is rendered and written exactly if no instance answered true;
\* with a true answer nothing is rendered or written for it in the cycle.
C9_SkipIffAnyTrue ==
    \A i \in 1..Len(thandled) :
        LET e == thandled[i] IN
        e.state # "failed" =>
            /\ (e.state = "written") <=> ~(\E k \in 1..Len(e.answers) : e.answers[k] = "True")
            /\ (e.state = "written") => RenderedNow(e) /\ WrittenNow(e)
            /\ (\E k \in 1..Len(e.answers) : e.answers[k] = "True") =>
                  /\ e.state = "skipped"
                  /\ ~RenderedNow(e)
                  /\ Untouched(e)

C9_Witness ==
    /\ pc = "exited"
    /\ status = "exit(0)"
    /\ Len(thandled) = 2
    /\ thandled[1].state = "skipped"
    /\ thandled[1].answers = <<"None", "True">>
    /\ thandled[2].state = "written"
    /\ thandled[2].answers = <<"False", "None">>

\* The constructor runs on a project that has its templates directory and
\* no site.yaml.
StartsWithoutConfig ==
    /\ pc = "start"
    /\ <<TEMPLATES>> \in DOMAIN fs
    /\ <<SITE_YAML>> \notin DOMAIN fs

\* An empty configuration: no ignore patterns, no converter extensions, no
\* copy-paths.
EmptyConfig(sd, patterns) ==
    /\ ~sd.ignore.some /\ ~sd.copy.some /\ ~sd.md.some
    /\ patterns = <<>>

\* C13: a configuration file that is not there is not fatal; the command goes
\* on with an empty configuration.
C13_AbsentConfigIsEmpty ==
    [][StartsWithoutConfig =>
         /\ status' # "AttributeError"
         /\ pc' = "compile" => EmptyConfig(site_data', main_ignore_patterns')]_vars

\* The compile command is given once more on the project: a new process, a
\* new Main, the output directory as the last run left it.
Rerun ==
    /\ cmd = "compile"
    /\ pc = "exited"
    /\ status = "exit(0)"
    /\ cycle < MaxRuns
    /\ pc' = "start"
    /\ status' = "running"
    /\ site_data' = SiteUnset
    /\ main_ignore_patterns' = <<>>
    /\ user_extension_classes' = <<>>
    /\ user_extension_instances' = <<>>
    /\ UNCHANGED <<program, prev, cmd, ctx, args_drafts, ext_env, cycle, templates_dict,
                   posts_dict, pi, ti, out_dir, out_dir0, cfail, thandled, log,
                   quit, server, edits>>
    /\ UNCHANGED notMain

TwiceNext == CompileNext \/ Rerun

\* The projects compiled twice: none of them changes between the runs.
TwiceTrees ==
    {t @@ PostTree(f) @@ SiteTree(SiteCopies) @@ AssetTree :
        t \in {TemplateTree({I_HTML}), TemplateTree({I_HTML, J_HTML})},
        f \in {(A_MD :> TitledPost), (A_MD :> UntitledPost) @@ (B_MD :> TitledPost)}}

TwiceInit ==
    /\ program = "blogger"
    /\ cmd = "compile"
    /\ args_drafts = FALSE
    /\ ext_env \in {Extensions(<<>>), Extensions(<<"E1">>)}
    /\ out_dir = EmptyDict
    /\ fs \in TwiceTrees
    /\ MainFresh

\* The answers the extension instances gave, template by template.
AnswersOf(handled) == [i \in 1..Len(handled) |-> handled[i].answers]

\* This step ends a cycle that ran through.
CycleCompletes == pc = "finalize" /\ pc' # "finalize" /\ cfail' = NoFail

\* The cycle at hand follows at once a cycle that ran through, went through
\* the posts and templates in the same order and got the same answers from
\* the extensions.
RepeatsLastCycle ==
    /\ prev.cycle >= 1
    /\ cycle = prev.cycle + 1
    /\ KeyOrder(posts_dict) = prev.posts
    /\ KeyOrder(templates_dict) = prev.templates
    /\ AnswersOf(thandled) = AnswersOf(prev.handled)

ToBeScanned(tree, root, file_ext, patterns) ==
    {f \in Below(tree, root) :
        /\ tree[f].kind = "file"
        /\ (~file_ext.some \/ EndsWith(Name(f), file_ext.text))
        /\ \A k \in (Len(root) + 1)..Len(f) :
              SubSeq(f, 1, k) \notin
                 ExcludePaths(tree, SubSeq(f, 1, k - 1), patterns)}

\* The entries of a dict under one key.
EntriesFor(dic, k) == {i \in 1..Len(dic) : dic[i].key = k}

\* The dict has exactly one entry for the file, under its path relative to
\* the root, and `held` tells whether the entry holds what it should.
OneEntry(dic, f, root, held(_)) ==
    LET at == EntriesFor(dic, JoinWith(SEP, RelativeTo(f, root))) IN
    /\ Cardinality(at) = 1
    /\ \A i \in at : held(dic[i].value)

\* This step makes the scans of a cycle (the extensions were constructed).
ScanStep == pc = "compile" /\ cfail'.phase # "init"

\* The scans hold every file of `files`.
ScansHold(files(_, _)) ==
    /\ \A f \in files(<<TEMPLATES>>, None) :
          OneEntry(templates_dict', f, <<TEMPLATES>>, LAMBDA v : v = fs[f].data)
    /\ \A f \in files(<<POSTS>>, EXT_MD) :
          OneEntry(posts_dict', f, <<POSTS>>,
                   LAMBDA v : v = Item(Deserialize("post", fs[f].data)))

\* C15: the scans of a cycle hold, for every file at any depth under the
\* root that is not excluded and has the extension asked for, exactly one
\* entry under the file's path relative to the root, with its deserialized
\* content.
C15_ScanReadsEveryFile ==
    [][ScanStep =>
         ScansHold(LAMBDA root, ext :
                      ToBeScanned(fs, root, ext, main_ignore_patterns))]_vars

\* What does hold: scans that return have read so the files directly in
\* the root.
C15_ScanReadsTopLevel ==
    [][(ScanStep /\ cfail' = NoFail) =>
         ScansHold(LAMBDA root, ext :
                      {f \in ToBeScanned(fs, root, ext, main_ignore_patterns) :
                          Len(f) = Len(root) + 1})]_vars

\* The constructor runs on a project that has its templates directory and a
\* site.yaml that loads, and neither an extensions module nor requirements.
StartsWithoutExtensions ==
    /\ pc = "start"
    /\ <<TEMPLATES>> \in DOMAIN fs /\ fs[<<TEMPLATES>>].kind = "dir"
    /\ <<SITE_YAML>> \in DOMAIN fs /\ fs[<<SITE_YAML>>].data.state # "error"
    /\ ~ext_env.present
    /\ ~ext_env.requirements

\* C17: a project without an extensions module starts up with no extension
\* and compiles, and a compile of it that ends has written every template.
C17_ExtensionsOptional ==
    /\ [][StartsWithoutExtensions =>
            /\ pc' = "compile"
            /\ status' = "running"
            /\ user_extension_classes' = <<>>]_vars
    /\ []((~ext_env.present /\ pc = "exited" /\ status = "exit(0)") =>
            /\ Len(thandled) = Len(templates_dict)
            /\ \A i \in 1..Len(thandled) : thandled[i].state = "written")

\* One hook called on every instance, in the order of discovery.
OnAll(hook, arg) ==
    [i \in 1..Len(user_extension_instances) |-> [hook |-> hook, inst |-> i, arg |-> arg]]

\* What is done by compile itself, between the hooks.
Does(what, arg) == <<[hook |-> what, inst |-> 0, arg |-> arg]>>

\* The order the claim gives to a cycle that completes: post by post the
\* pre hooks, the expansion and conversion, the post hooks; then template
\* by template the question and, unless skipped, render and write; then the
\* copies; then finalize on every instance.
OrderOfCycle ==
    Concat([i \in 1..Len(posts_dict) |->
              OnAll("pre_render_post", posts_dict[i].key)
                \o Does("render", posts_dict[i].key)
                \o OnAll("post_render_post", posts_dict[i].key)])
      \o Concat([j \in 1..Len(thandled) |->
                   OnAll("should_skip_template", thandled[j].name)
                     \o (IF thandled[j].state = "written"
                         THEN Does("render", thandled[j].name)
                                \o Does("write", thandled[j].name)
                         ELSE <<>>)])
      \o CopyCalls(site_data)
      \o OnAll("finalize", <<>>)

\* C18: in a cycle that completes, the hooks were called in this order: for
\* each post pre_render_post on every instance in discovery order, then the
\* post's expansion and conversion, then post_render_post on every instance;
\* all posts before the first template; finalize once on every instance,
\* after the last write and the last copy.
C18_HookOrder ==
    [][CycleCompletes =>
         /\ log' = OrderOfCycle
         /\ Len(thandled) = Len(templates_dict)]_vars

\* A cycle with two instances, two posts, a written template and a copy
\* has completed.
C18_Witness ==
    /\ pc = "exited"
    /\ status = "exit(0)"
    /\ Len(user_extension_instances) = 2
    /\ Len(posts_dict) = 2
    /\ \E j \in 1..Len(thandled) : thandled[j].state = "written"
    /\ CopyCalls(site_data) # <<>>
    /\ log[Len(log)] = [hook |-> "finalize", inst |-> 2, arg |-> <<>>]

\* The files the scans of this tree are to read and cannot.
UnreadableInput ==
    {f \in ToBeScanned(fs, <<TEMPLATES>>, None, main_ignore_patterns)
             \cup ToBeScanned(fs, <<POSTS>>, EXT_MD, main_ignore_patterns) :
        ~fs[f].perm}

\* C21: a scan that meets a file it cannot read ends the cycle with an
\* error: nothing was rendered, nothing written, and no cycle completes over
\* a project with such a file.
C21_UnreadableInputAborts ==
    /\ [][(ScanStep /\ UnreadableInput # {}) =>
            /\ cfail' # NoFail
            /\ cfail'.phase = "scan"
            /\ ~InCompile(pc')
            /\ status' # "exit(0)"
            /\ log' = <<>>
            /\ out_dir' = out_dir]_vars
    /\ [][CycleCompletes => UnreadableInput = {}]_vars

\* The compile command ended with PermissionError on a project with one
\* readable and one unreadable post; the output is as it was.
C21_Witness ==
    /\ pc = "exited"
    /\ status = "PermissionError"
    /\ cfail = Fail("scan", "scan", "PermissionError", 0)
    /\ <<POSTS, A_MD>> \in DOMAIN fs /\ fs[<<POSTS, A_MD>>].perm
    /\ <<POSTS, B_MD>> \in DOMAIN fs /\ ~fs[<<POSTS, B_MD>>].perm
    /\ posts_dict = <<>>
    /\ log = <<>>
    /\ out_dir = out_dir0

\* A file name without its suffix, when it ends with it.
WithoutSuffix(name, suf) ==
    IF EndsWith(name, suf) THEN SubSeq(name, 1, Len(name) - Len(suf)) ELSE name

\* The posts the per-post loop gave a name and a toc.
RenderedPosts ==
    {i \in 1..Len(posts_dict) :
        /\ posts_dict[i].value.name # None
        /\ posts_dict[i].value.post.metadata.kind = "map"}

\* C24: the toc of a rendered post is its declared title with a hyphen for
\* each space; with no title declared it is the file name without the .md
\* suffix, with a hyphen for each space, whatever the file name.
C24_TocOfTitleOrName ==
    \A i \in RenderedPosts :
        LET item == posts_dict[i].value
            md   == item.post.metadata.map
        IN item.toc = Some(IF "title" \in DOMAIN md
                           THEN Hyphenate(md["title"])
                           ELSE Hyphenate(WithoutSuffix(posts_dict[i].key, EXT_MD.text)))

\* What does hold: so it is for a declared title, and for the file names
\* whose stem neither begins nor ends with ".", "m" or "d".
C24_TocWhenStemKept ==
    \A i \in RenderedPosts :
        LET item == posts_dict[i].value
            md   == item.post.metadata.map
            stem == WithoutSuffix(posts_dict[i].key, EXT_MD.text)
        IN ("title" \in DOMAIN md
              \/ (stem # <<>> /\ {stem[1], stem[Len(stem)]} \cap {".", "m", "d"} = {})) =>
           item.toc = Some(IF "title" \in DOMAIN md
                           THEN Hyphenate(md["title"])
                           ELSE Hyphenate(stem))

\* The cases of C24 are met: a title with a space, a name with a space.
C24_CasesMet ==
    /\ pc = "exited" /\ status = "exit(0)"
    /\ \E i \in RenderedPosts : posts_dict[i].value.toc = Some(<<"H", "-", "i">>)
    /\ \E i \in RenderedPosts : /\ posts_dict[i].key = A_B_MD
                                /\ posts_dict[i].value.toc = Some(<<"a", "-", "b">>)

\* The environment could not be created, or it was created and the install
\* of the requirements ended with an error.
CreationFails == ext_env.requirements /\ ~ext_env.venv /\ ~ext_env.venv_created
InstallFails ==
    ext_env.requirements /\ ~ext_env.venv /\ ext_env.venv_created /\ ~ext_env.installed

\* No cycle began: no instance, no hook call, the output as it was.
NoCycleBegan ==
    /\ cycle = 0
    /\ user_extension_instances = <<>>
    /\ log = <<>>
    /\ out_dir = out_dir0
    /\ pc \in {"start", "exited"}
    /\ status # "exit(0)"

\* C27: when the environment of the extensions cannot be created, or the
\* install of the requirements ends with an error, the command ends before
\* any cycle: no instance is made, no hook runs, nothing is written.
C27_ProvisioningFailureAborts ==
    (CreationFails \/ InstallFails) => NoCycleBegan

\* What does hold: so it is when the environment cannot be created.
C27_CreationFailureAborts ==
    CreationFails => NoCycleBegan

\* The content files the scans of a cycle with drafts find.
Discovered ==
    ToBeScanned(fs, <<POSTS>>, EXT_MD, main_ignore_patterns)
      \cup ToBeScanned(fs, <<DRAFTS>>, EXT_MD, main_ignore_patterns)

\* The file is rendered as a post of its own.
RenderedAsPost(f) ==
    \E i \in RenderedPosts :
        /\ posts_dict[i].key = JoinWith(SEP, RelativeTo(f, <<f[1]>>))
        /\ posts_dict[i].value.post.metadata =
              serialize_post(fs[f].data.text, fs[f].data.yaml).metadata

\* A cycle with drafts ran to its end.
DraftsCompiled == args_drafts /\ pc = "exited" /\ status = "exit(0)"

\* C30: with drafts asked for, every .md file under the posts root and every
\* one under the drafts root is rendered as a post of its own and is in the
\* list of posts every rendered template gets, also when a draft and a post
\* have the same relative path; there are as many posts as files found.
C30_PostsAndDraftsAllRendered ==
    DraftsCompiled =>
        /\ \A f \in Discovered : RenderedAsPost(f)
        /\ Len(posts_dict) = Cardinality(Discovered)
        /\ \A k \in 1..Len(thandled) :
              thandled[k].state = "written" => WrittenNow(thandled[k])

\* What does hold: so it is when no draft has the relative path of a post.
C30_WhenPathsDiffer ==
    (DraftsCompiled
       /\ \A f, g \in Discovered : f # g => RelativeTo(f, <<f[1]>>) # RelativeTo(g, <<g[1]>>)) =>
        /\ \A f \in Discovered : RenderedAsPost(f)
        /\ Len(posts_dict) = Cardinality(Discovered)
        /\ \A k \in 1..Len(thandled) :
              thandled[k].state = "written" => WrittenNow(thandled[k])

\* A post and a draft of different names are both rendered and passed on.
C30_BothRendered ==
    /\ DraftsCompiled
    /\ Discovered = {<<POSTS, A_MD>>, <<DRAFTS, B_MD>>}
    /\ Len(posts_dict) = 2
    /\ Len(thandled) = 1
    /\ thandled[1].state = "written"

-----------------------------------------------------------------------------
(* The run command: the server, the watcher and the watch loop *)

\* The server process starts and the watcher is constructed over the working
\* directory with Main's ignore patterns (lines 158-173 of blogger.py,
\* 128-143 of site-compiler.py); its constructor makes the first dirty() call.
StartWatch ==
    /\ pc = "serve"
    /\ server' = "running"
    /\ ignore_patterns' = main_ignore_patterns
    /\ winit' = TRUE
    /\ \E r \in DirtyOutcomes(EmptyDict, fs, main_ignore_patterns, platform) :
         /\ path_hash' = r.path_hash
         /\ result' = [raised |-> r.raised, value |-> ~r.raised /\ r.dirty]
         /\ wpc' = IF r.raised THEN "crashed" ELSE "ready"
         /\ pc' = IF r.raised THEN "exited" ELSE "watching"
         /\ status' = IF r.raised THEN "IsADirectoryError" ELSE status
    /\ tick' = 1 - tick
    /\ calls' = IF calls < 2 THEN calls + 1 ELSE 2
    /\ lastFs' = fs
    /\ UNCHANGED <<platform, fs>>
    /\ UNCHANGED <<program, prev, cmd, ctx, site_data, main_ignore_patterns, args_drafts,
                   ext_env, user_extension_classes, user_extension_instances,
                   cycle, templates_dict, posts_dict, pi, ti, out_dir, out_dir0,
                   cfail, thandled, log, quit, edits>>
    /\ UNCHANGED <<parseVars, ig, pub, dr>>

\* The loop condition of line 174: while not quit.
LoopContinuesMutant(q) == TRUE
LoopContinues(q) == ~q

\* self.load_site_data() at the head of a watch cycle (line 180).
ReloadMutant(tree, current) == current
Reload(tree, current) == LoadSiteFile(tree, current)

\* One turn of the watch loop whose second has passed (lines 174-185 of
\* blogger.py, 144-148 of site-compiler.py): dirty(), and on a change the
\* configuration is loaded again (blogger.py only) and a compile begins.
Poll ==
    /\ pc = "watching"
    /\ LoopContinues(quit)
    /\ \E r \in DirtyOutcomes(path_hash, fs, ignore_patterns, platform) : DoDirty(r)
    /\ LET sd == Reload(fs, site_data) IN
       IF result'.raised
       THEN /\ pc' = "exited"
            /\ status' = "IsADirectoryError"
            /\ cfail' = NoFail
            /\ UNCHANGED <<ctx, site_data, main_ignore_patterns>>
       ELSE IF ~result'.value
       THEN /\ cfail' = NoFail
            /\ UNCHANGED <<pc, status, ctx, site_data, main_ignore_patterns>>
       ELSE IF program # "blogger"
       THEN /\ pc' = "compile"
            /\ ctx' = "watch"
            /\ cfail' = NoFail
            /\ UNCHANGED <<status, site_data, main_ignore_patterns>>
       ELSE IF sd.state = "error"
       THEN /\ cfail' = Fail("load", "yaml", "YAMLError", 0)
            /\ ctx' = "watch"
            /\ UNCHANGED <<pc, status, site_data, main_ignore_patterns>>
       ELSE /\ site_data' = sd
            /\ main_ignore_patterns' = IgnorePatternsOf(sd)
            /\ pc' = "compile"
            /\ ctx' = "watch"
            /\ cfail' = NoFail
            /\ UNCHANGED status
    /\ UNCHANGED <<platform, fs, ignore_patterns, winit, wpc>>
    /\ UNCHANGED <<program, prev, cmd, args_drafts, ext_env, user_extension_classes,
                   user_extension_instances, cycle, templates_dict, posts_dict,
                   pi, ti, out_dir, out_dir0, thandled, log, quit, server, edits>>
    /\ UNCHANGED <<parseVars, ig, pub, dr>>

\* SIGINT or SIGTERM once the handlers of lines 164-173 are registered.
Signal ==
    /\ pc \in {"watching", "compile", "posts", "templates", "copy", "finalize"}
    /\ wpc = "ready"
    /\ ~quit
    /\ quit' = TRUE
    /\ server' = IF program = "blogger" THEN "terminated" ELSE server
    /\ UNCHANGED <<program, prev, cmd, pc, ctx, status, site_data, main_ignore_patterns,
                   args_drafts, ext_env, user_extension_classes,
                   user_extension_instances, cycle, templates_dict, posts_dict,
                   pi, ti, out_dir, out_dir0, cfail, thandled, log, edits>>
    /\ UNCHANGED notMain

\* The loop condition of line 174 with quit set.
LoopExit ==
    /\ pc = "watching"
    /\ ~LoopContinues(quit)
    /\ pc' = "exited"
    /\ status' = "exit(0)"
    /\ server' = "terminated"
    /\ UNCHANGED <<program, prev, cmd, ctx, site_data, main_ignore_patterns,
                   args_drafts, ext_env, user_extension_classes,
                   user_extension_instances, cycle, templates_dict, posts_dict,
                   pi, ti, out_dir, out_dir0, cfail, thandled, log, quit, edits>>
    /\ UNCHANGED notMain

\* "*/templates" and "*/posts": the watcher passes over the two directories.
PAT_TEMPLATES == <<"*", "/">> \o TEMPLATES
PAT_POSTS     == <<"*", "/">> \o POSTS
SiteIgnoresDirs == SiteDict(Opt(<<PAT_TEMPLATES, PAT_POSTS>>), OptNone, OptNone)

\* What the author may put into a file of the project.
EditContents(p) ==
    IF p = <<SITE_YAML>> THEN {SiteMalformed, SiteIgnoresDirs}
    ELSE IF p = <<POSTS, A_MD>> THEN {TitledPost, UntitledPost}
    ELSE {}

\* The author saves a file while the process runs.
Edit ==
    /\ pc \notin {"start", "exited"}
    /\ edits < MaxEdits
    /\ edits' = edits + 1
    /\ \E p \in DOMAIN fs :
         \E d \in EditContents(p) \ {fs[p].data} :
            fs' = [fs EXCEPT ![p].data = d]
    /\ UNCHANGED <<platform, ignore_patterns, winit, wpc, path_hash, result,
                   tick, calls, lastFs>>
    /\ UNCHANGED <<program, prev, cmd, pc, ctx, status, site_data, main_ignore_patterns,
                   args_drafts, ext_env, user_extension_classes,
                   user_extension_instances, cycle, templates_dict, posts_dict,
                   pi, ti, out_dir, out_dir0, cfail, thandled, log, quit, server>>
    /\ UNCHANGED <<parseVars, ig, pub, dr>>

RunNext == CompileNext \/ StartWatch \/ Poll \/ Signal \/ LoopExit \/ Edit

RunTrees ==
    {TemplateTree({I_HTML}) @@ PostTree((A_MD :> TitledPost)) @@ SiteTree(s) :
        s \in {SiteNoneValue, SiteIgnoresDirs}}

RunInit ==
    /\ program \in {"blogger", "site-compiler"}
    /\ cmd \in {"run", "compile"}
    /\ platform \in {"win32", "posix"}
    /\ args_drafts = FALSE
    /\ ext_env = Extensions(<<"E1">>)
    /\ out_dir = EmptyDict
    /\ fs \in RunTrees
    /\ MainFresh

-----------------------------------------------------------------------------
(* Run: what the claims speak of *)

\* This step is a compile cycle (or the reload at its head) raising.
CycleFails ==
    /\ cfail' # NoFail
    /\ cfail = NoFail \/ cycle' # cycle \/ tick' # tick

Failed(s) == s \notin {"running", "exit(0)"}

\* C10: under run an exception raised by any compile cycle is caught and the
\* process keeps watching; under compile it ends the process with a failure.
C10_RunKeepsWatching ==
    [][CycleFails =>
         IF cmd = "run"
         THEN pc' = "watching" /\ status' = "running"
         ELSE pc' = "exited" /\ Failed(status')]_vars

\* What does hold: blogger.py catches the failures of the cycles its watch
\* loop starts, and of no other.
C10_WatchCyclesCaught ==
    [][CycleFails =>
         IF cmd = "run" /\ ctx' = "watch" /\ program = "blogger"
         THEN pc' = "watching" /\ status' = "running"
         ELSE pc' = "exited" /\ Failed(status')]_vars

\* The steps a process that is not stopped goes on to take: those of the
\* compile under way and the test of the loop condition once quit is set.
Proceeds == CompileNext \/ LoopExit

\* The signal handler runs in this step.
SignalStep == ~quit /\ quit'

\* C11: a signal delivered while the watch loop of blogger.py runs sets quit
\* and terminates the server process without touching the compile at hand;
\* that compile leaves only through its last step or through a failure; with
\* quit set the loop starts no further cycle; and the process then exits.
C11_Cancellation ==
    /\ [][SignalStep =>
            /\ server' = "terminated"
            /\ pc' = pc /\ cfail' = cfail
            /\ <<posts_dict, templates_dict, pi, ti, out_dir, log>>'
                  = <<posts_dict, templates_dict, pi, ti, out_dir, log>>]_vars
    /\ [][(quit /\ InCompile(pc) /\ ~InCompile(pc')) =>
            (pc = "finalize" \/ cfail' # NoFail)]_vars
    /\ [][(quit /\ pc = "watching") => (pc' = "exited" \/ pc' = pc)]_vars
    /\ [](quit => <>(pc = "exited"))

\* A signal reached the process in the middle of a watch-triggered compile.
C11_Witness ==
    /\ quit
    /\ server = "terminated"
    /\ ctx = "watch"
    /\ pc = "templates"
    /\ pi = 2
    /\ cycle = 2

\* What a read of the configuration file of this tree gives.
ConfigIn(tree) == tree[<<SITE_YAML>>].data

\* The configuration of the cycle at hand is the one the file held when the
\* cycle began (lastFs: the tree at the dirty() call that began it).
UsesConfigOfCycleStart ==
    (program = "blogger" /\ ctx = "watch" /\ InCompile(pc)
       /\ <<SITE_YAML>> \in DOMAIN lastFs)
    => /\ site_data = ConfigIn(lastFs)
       /\ main_ignore_patterns = IgnorePatternsOf(ConfigIn(lastFs))

\* The constructor hands a compile over.
FirstCycleStep == pc = "start" /\ pc' = "compile"

\* C12: each cycle of blogger.py works with the configuration read from
\* site.yaml as the file was when the cycle began: the first with what the
\* constructor read, each watch cycle with what the file held at the dirty()
\* call that began it, ignore patterns included.
C12_ConfigPerCycle ==
    /\ [][(FirstCycleStep /\ <<SITE_YAML>> \in DOMAIN fs) =>
            /\ site_data' = ConfigIn(fs)
            /\ main_ignore_patterns' = IgnorePatternsOf(ConfigIn(fs))]_vars
    /\ []UsesConfigOfCycleStart

\* A watch cycle is scanning with the ignore patterns of an edited site.yaml,
\* while the watcher still holds the empty list it was built with.
C12_Witness ==
    /\ program = "blogger"
    /\ ctx = "watch"
    /\ pc = "posts"
    /\ site_data = SiteIgnoresDirs
    /\ main_ignore_patterns = <<PAT_TEMPLATES, PAT_POSTS>>
    /\ ignore_patterns = <<>>

\* The hook calls this step makes, as the log takes them up.
NewCalls ==
    IF Len(log') > Len(log)
    THEN {log'[k] : k \in (Len(log) + 1)..Len(log')} ELSE {}

\* C16: the extension instances are made at the head of every cycle and at
\* no other point, each with the site_data of that cycle, and every hook
\* call of a cycle goes to an instance made in that cycle.
C16_FreshInstancesPerCycle ==
    /\ [][user_extension_instances' # user_extension_instances
            => /\ pc = "compile"
               /\ user_extension_instances' =
                    FreshInstances(user_extension_classes, cycle', site_data)
               /\ \A i \in 1..Len(user_extension_instances') :
                     /\ user_extension_instances'[i].cycle = cycle'
                     /\ user_extension_instances'[i].site_data = site_data']_vars
    /\ [][\A c \in NewCalls :
            c.inst >= 1 =>
               /\ c.inst <= Len(user_extension_instances)
               /\ user_extension_instances[c.inst].cycle = cycle
               /\ user_extension_instances[c.inst].site_data = site_data]_vars

\* A hook of the second cycle was called on an instance made in that cycle
\* with the configuration read for it, not the one of the constructor.
C16_Witness ==
    /\ cycle = 2
    /\ ctx = "watch"
    /\ \E k \in 1..Len(log) : log[k].hook = "pre_render_post" /\ log[k].inst = 1
    /\ Len(user_extension_instances) = 1
    /\ user_extension_instances[1].cycle = 2
    /\ user_extension_instances[1].site_data = SiteIgnoresDirs
    /\ ignore_patterns = <<>>

\* A hook raised in this step.
HookRaises == InCompile(pc) /\ pc # "compile" /\ cfail' # NoFail /\ cfail'.by = "hook"

\* The step ended with the call that raised: nothing was rendered, written
\* or called after it, and the output is as it was.
EndsWithTheCall ==
    /\ log' # <<>>
    /\ log'[Len(log')].inst >= 1
    /\ Len(log') > Len(log)
    /\ \A k \in (Len(log) + 1)..Len(log') :
          log'[k].hook \notin {"write", "copy"}
    /\ out_dir' = out_dir
    /\ pi' = pi /\ ti' = ti

\* C20: a hook that raises ends the cycle there: the step ends with that
\* call, the cycle takes no further step, and the exception goes where
\* every exception of a cycle goes: the watch loop catches it and keeps
\* watching, a one-shot compile ends with it.
C20_HookFailureAborts ==
    [][HookRaises =>
         /\ EndsWithTheCall
         /\ ~InCompile(pc')
         /\ IF ctx = "watch"
            THEN pc' = "watching" /\ status' = "running"
            ELSE pc' = "exited" /\ status' = cfail'.exc]_vars

\* The watch loop caught what should_skip_template raised in the cycle of a
\* detected change; the post of that cycle was rendered, no template written.
C20_Witness ==
    /\ ctx = "watch"
    /\ pc = "watching"
    /\ status = "running"
    /\ cfail = Fail("templates", "hook", "Exception", 1)
    /\ log # <<>>
    /\ log[Len(log)].hook = "should_skip_template"
    /\ out_dir = out_dir0

\* The post at p is in the tree as the most recent scan read it.
AsRead(p) ==
    \E i \in 1..Len(posts_dict) :
        /\ posts_dict[i].key = Name(p)
        /\ LET read == serialize_post(fs[p].data.text, fs[p].data.yaml)
               item == posts_dict[i].value.post
           IN /\ item.source_text = read.source_text
              /\ item.metadata = read.metadata

\* The posts the watcher tracks.
TrackedPosts ==
    {p \in Tracked(fs, ignore_patterns') : Len(p) = 2 /\ p[1] = POSTS}

\* The watcher is made and its first dirty() call returns; a later call
\* returns, in the loop; a cycle begins with the reload of line 180.
SnapshotStep == pc = "serve" /\ pc' = "watching"
PollStep == pc = "watching" /\ DirtyStep /\ ~result'.raised
CycleBegins == pc' = "compile" \/ (cfail' # NoFail /\ cfail'.phase = "load")

\* C28: no change of a tracked file is missed.  A change is seen by the
\* dirty() call that takes it into the snapshot and by no later one, so none
\* is missed exactly if the first snapshot takes up what the first compile
\* read and every later call that changes the snapshot begins a cycle.
C28_NoEditMissed ==
    /\ [][SnapshotStep => \A p \in TrackedPosts : AsRead(p)]_vars
    /\ [][(PollStep /\ path_hash' # path_hash) => CycleBegins]_vars

\* What does hold: the changes made once the watcher has its first snapshot,
\* those made while a cycle runs among them, begin a cycle at the next turn
\* of the loop.
C28_ChangesAfterSnapshotSeen ==
    /\ [][(PollStep /\ path_hash' # path_hash) => CycleBegins]_vars
    /\ [][(PollStep /\ \E p \in Tracked(fs, ignore_patterns) :
                          PathStr(p) \in DOMAIN path_hash
                            /\ path_hash[PathStr(p)] # md5(fs[p].data)) =>
            CycleBegins]_vars

\* A second change, made after the loop began a cycle for the first, has
\* begun one too.
C28_SeenAgain ==
    /\ pc = "compile" /\ ctx = "watch" /\ cycle = 2
    /\ edits = 2
    /\ lastFs = fs
    /\ path_hash[PathStr(<<POSTS, A_MD>>)] = md5(fs[<<POSTS, A_MD>>].data)

\* A cycle that the loop began has failed and the loop is back at its head.
WatchCycleFailed == pc = "watching" /\ ctx = "watch" /\ cfail # NoFail

\* No tracked file differs from what the previous dirty() call saw.
NoFurtherChange ==
    TrackedView(fs, ignore_patterns) = TrackedView(lastFs, ignore_patterns)

\* C29: when a cycle begun by the loop has failed, the change that began it
\* is in the snapshot, and the next turn of the loop begins no cycle and
\* leaves the output as the failed cycle left it unless a tracked file has
\* changed again.
C29_FailedChangeNotRetried ==
    /\ [](WatchCycleFailed =>
            \A p \in Tracked(lastFs, ignore_patterns) :
                /\ PathStr(p) \in DOMAIN path_hash
                /\ path_hash[PathStr(p)] = md5(lastFs[p].data))
    /\ [][(WatchCycleFailed /\ PollStep /\ NoFurtherChange) =>
            /\ ~CycleBegins
            /\ pc' = "watching"
            /\ result' = Returned(FALSE)
            /\ cycle' = cycle
            /\ out_dir' = out_dir]_vars

\* A cycle begun for a post failed, and the next turn of the loop found
\* nothing to do.
C29_Witness ==
    /\ pc = "watching" /\ ctx = "watch" /\ status = "running"
    /\ cycle = 2
    /\ cfail = NoFail
    /\ result = Returned(FALSE)
    /\ calls = 2
    /\ fs = lastFs
    /\ fs[<<POSTS, A_MD>>].data = UntitledPost
    /\ path_hash[PathStr(<<POSTS, A_MD>>)] = md5(UntitledPost)
    /\ log # <<>>
    /\ log[Len(log)].hook # "finalize"

-----------------------------------------------------------------------------
(* The draft command *)

\* str(n) for a natural number.
Digit(d) == <<"0", "1", "2", "3", "4", "5", "6", "7", "8", "9">>[d + 1]
RECURSIVE Str(_)
Str(n) == IF n < 10 THEN <<Digit(n)>> ELSE Str(n \div 10) \o <<Digit(n % 10)>>

TODAY == <<"2", "0", "2", "6", "-", "1", "1", "-", "0", "3">>
T_DRAFT == <<"d", "r", "a", "f", "t">>
T_X == <<"x">>

\* args.title or "draft" (line 438).
TitleOf(arg) == IF arg = <<>> THEN T_DRAFT ELSE arg

\* The names of lines 443 and 450.
DraftName(today, title, index) ==
    today \o <<"-">> \o title
      \o (IF index = 0 THEN <<>> ELSE <<"(">> \o Str(index) \o <<")">>)
      \o <<".", "m", "d">>

\* Path.exists(): a file or a directory is there.
ExistsMutant(tree, p) == p \in DOMAIN tree /\ tree[p].kind = "file"
Exists(tree, p) == p \in DOMAIN tree

\* FRONTMATTER (lines 439-442), with what yaml reads from it.
FrontMatterStamp(today, title) ==
    PostData(DELIM \o <<"\n", "d", "a", "t", "e", ":", " ">> \o today
               \o <<"\n", "t", "i", "t", "l", "e", ":", " ", "\"">> \o title
               \o <<"\"", "\n">> \o DELIM,
             YamlDoc(MapMeta([date |-> today, title |-> title])))

OldDraft == PostData(<<"o">>, YamlDoc(MapMeta([title |-> <<"o">>])))

\* Lines 436-447: the first name, the drafts directory made if it is missing.
DraftBegin ==
    /\ dr.pc = "start"
    /\ dr' = [dr EXCEPT !.pc = "probe", !.index = 0,
                        !.name = DraftName(dr.today, TitleOf(dr.title), 0)]
    /\ fs' = IF Exists(fs, <<DRAFTS>>) THEN fs ELSE (<<DRAFTS>> :> Dir) @@ fs
    /\ UNCHANGED <<watcherVars, parseVars, ig, mainVars, pub>>

\* One turn of the loop of lines 448-451.
DraftProbe ==
    /\ dr.pc = "probe"
    /\ Exists(fs, <<DRAFTS, dr.name>>)
    /\ dr' = [dr EXCEPT !.index = dr.index + 1,
                        !.name = DraftName(dr.today, TitleOf(dr.title), dr.index + 1)]
    /\ UNCHANGED <<watchVars, parseVars, ig, mainVars, pub>>

\* The loop is left and the file written (lines 452-454).
DraftWrite ==
    /\ dr.pc = "probe"
    /\ ~Exists(fs, <<DRAFTS, dr.name>>)
    /\ fs' = (<<DRAFTS, dr.name>> :>
                File(FrontMatterStamp(dr.today, TitleOf(dr.title)), TRUE)) @@ fs
    /\ dr' = [dr EXCEPT !.pc = "done"]
    /\ UNCHANGED <<watcherVars, parseVars, ig, mainVars, pub>>

DraftNext == DraftBegin \/ DraftProbe \/ DraftWrite

\* The drafts root before the command: any of the names the command may
\* try, each absent, a file or a directory.
DraftCandidates(title) ==
    {<<DRAFTS, DraftName(TODAY, TitleOf(title), k)>> : k \in 0..MaxSuffix}
DraftTrees(title) ==
    {EmptyDict} \cup
    {(<<DRAFTS>> :> Dir) @@ t :
        t \in UNION {[S -> {File(OldDraft, TRUE), Dir}] :
                        S \in SUBSET DraftCandidates(title)}}

DraftIdle == dr = [pc |-> "none", title |-> <<>>, today |-> <<>>, index |-> 0,
                   name |-> <<>>, before |-> EmptyDict]

DraftInit ==
    \E title \in {<<>>, T_X} :
        /\ fs \in DraftTrees(title)
        /\ dr = [pc |-> "start", title |-> title, today |-> TODAY, index |-> 0,
                 name |-> <<>>, before |-> fs]

-----------------------------------------------------------------------------
(* Draft: what the claims speak of *)

\* The first free name: the plain one, or the one with the smallest suffix.
FreeIndex(tree, today, title) ==
    CHOOSE n \in 0..(MaxSuffix + 1) :
        /\ ~(<<DRAFTS, DraftName(today, title, n)>> \in DOMAIN tree)
        /\ \A k \in 0..(n - 1) : <<DRAFTS, DraftName(today, title, k)>> \in DOMAIN tree

DraftKeepsExisting ==
    \A p \in DOMAIN dr.before : p \in DOMAIN fs /\ fs[p] = dr.before[p]

DraftWroteFirstFree ==
    LET made == {p \in DOMAIN fs \ DOMAIN dr.before : fs[p].kind = "file"}
        free == <<DRAFTS, DraftName(dr.today, TitleOf(dr.title),
                                    FreeIndex(dr.before, dr.today, TitleOf(dr.title)))>>
    IN made = {free}

\* C7: creating a draft leaves every existing file as it was, ends, and has
\* then written exactly one new file, under the plain name if that was free
\* and else under the name with the smallest free suffix n >= 1.
C7_DraftCreation ==
    /\ []DraftKeepsExisting
    /\ [](dr.pc = "done" => DraftWroteFirstFree)
    /\ <>(dr.pc = "done")

C7_Witness ==
    /\ dr.pc = "done"
    /\ dr.index = 2
    /\ dr.name = DraftName(TODAY, T_X, 2)
    /\ <<DRAFTS, DraftName(TODAY, T_X, 0)>> \in DOMAIN dr.before
    /\ <<DRAFTS, DraftName(TODAY, T_X, 1)>> \in DOMAIN dr.before
    /\ dr.before[<<DRAFTS, DraftName(TODAY, T_X, 1)>>].kind = "dir"
    /\ <<DRAFTS, DraftName(TODAY, T_X, 3)>> \in DOMAIN dr.before
    /\ <<DRAFTS, dr.name>> \in DOMAIN fs

-----------------------------------------------------------------------------
(* The post command: publishing a draft *)

\* str.lower() on the characters the titles are made of.
Lower(c) ==
    IF c = "H" THEN "h" ELSE IF c = "I" THEN "i" ELSE c

\* \w and \s on those characters.
WordChars == {"h", "i", "H", "I", "o", "_", "1", "2"}
SpaceChars == {" ", "\t", "\n"}

\* re.sub(r"[^\w|^\-\s]", "", title): a character goes unless it is a word
\* character, "|", "^", "-" or white space.
PuncKept(c) == c \in WordChars \cup {"|", "^", "-"} \cup SpaceChars

\* Line 413 and 415.
Slug(title) ==
    SelectSeq(Hyphenate([i \in 1..Len(title) |-> Lower(title[i])]), PuncKept)

\* Line 416.
PostFileName(date, title) == date \o <<"-">> \o Slug(title) \o <<".", "m", "d">>

\* What lines 424-429 write: the delimiters, dump(metadata), the body.
PublishedData(md, body) ==
    PostData(DELIM \o <<"\n", "y", "\n">> \o DELIM \o <<"\n", "\n">> \o body,
             YamlDoc(MapMeta(md)))

\* Lines 417-429: the collision check and the write.
WritePostMutant(tree, f, data) ==
    IF ~Exists(tree, Parent(f))
    THEN [tree |-> tree, status |-> "FileNotFoundError"]
    ELSE [tree |-> (f :> File(data, TRUE)) @@ tree, status |-> ""]
WritePost(tree, f, data) ==
    IF Exists(tree, f) THEN [tree |-> tree, status |-> "exit(1)"]
    ELSE IF ~Exists(tree, Parent(f))
    THEN [tree |-> tree, status |-> "FileNotFoundError"]
    ELSE [tree |-> (f :> File(data, TRUE)) @@ tree, status |-> ""]

T_HI == <<"H", "i">>
T_HI_BANG == <<"H", "i", "!">>
T_HI_PIPE == <<"H", "|", "i">>
PostTitles == {T_HI, T_HI_BANG, T_HI_PIPE}
D_1 == <<"1">>
D_2 == <<"2">>
PostDates == {D_1, D_2}

PostOrder == <<<<DRAFTS, A_MD>>, <<DRAFTS, B_MD>>>>

\* What the author may type at the prompts.
SelectInputs == {"q", "x", "0", "1", "2", "3"}
AnswerInputs == {"y", "Y", "n", "N", "x"}
DateInputs == {"1", "2", "t", "x"}

\* int(index) of lines 376-380 on those inputs: ValueError is no number.
IntOf(input) ==
    IF input = "0" THEN Opt(0) ELSE IF input = "1" THEN Opt(1)
    ELSE IF input = "2" THEN Opt(2) ELSE IF input = "3" THEN Opt(3) ELSE OptNone

\* get_answer (lines 390-394): the answer read, or the prompt again.
get_answerMutant(resp) ==
    IF resp \in {"y", "Y"} THEN "yes" ELSE "no"
get_answer(resp) ==
    IF resp \in {"y", "Y"} THEN "yes"
    ELSE IF resp \in {"n", "N"} THEN "no"
    ELSE "again"

\* Lines 402-410: today, a date that strptime parses, or ValueError.
DateOf(d) ==
    IF d = "t" THEN Opt(TODAY)
    ELSE IF d = "1" THEN Opt(D_1)
    ELSE IF d = "2" THEN Opt(D_2)
    ELSE OptNone

\* Lines 364-369: the drafts offered.
PostList ==
    /\ pub.pc = "start"
    /\ IF ~Exists(fs, <<DRAFTS>>)
       THEN pub' = [pub EXCEPT !.pc = "exited", !.status = "FileNotFoundError"]
       ELSE pub' = [pub EXCEPT !.pc = "select",
                       !.drafts = SelectSeq(Listing(fs, <<DRAFTS>>, PostOrder),
                           LAMBDA d : d \notin ExcludePaths(fs, <<DRAFTS>>, pub.patterns))]
    /\ UNCHANGED <<watchVars, parseVars, ig, mainVars, dr>>

\* One turn of the selection loop (lines 372-384) and, on a valid number,
\* the read of the draft (lines 385-388).
PostSelect ==
    /\ pub.pc = "select"
    /\ \E input \in SelectInputs :
         LET n == IntOf(input)
         IN IF input = "q"
            THEN pub' = [pub EXCEPT !.pc = "exited", !.status = "exit(0)",
                                    !.input = input]
            ELSE IF ~n.some \/ n.val > Len(pub.drafts) \/ n.val < 1
            THEN pub' = [pub EXCEPT !.input = input]
            ELSE LET post == serialize_post(fs[pub.drafts[n.val]].data.text,
                                            fs[pub.drafts[n.val]].data.yaml)
                 IN pub' = [pub EXCEPT !.pc = "title", !.draft = pub.drafts[n.val],
                                       !.post = post, !.input = input]
    /\ UNCHANGED <<watchVars, parseVars, ig, mainVars, dr>>

\* One turn of the loop of lines 397-398: the title shown, accepted or
\* replaced.
PostTitle ==
    /\ pub.pc = "title"
    /\ LET md == pub.post.metadata IN
       IF md.kind # "map"
       THEN pub' = [pub EXCEPT !.pc = "exited", !.status = "TypeError", !.input = ""]
       ELSE IF "title" \notin DOMAIN md.map
       THEN pub' = [pub EXCEPT !.pc = "exited", !.status = "KeyError", !.input = ""]
       ELSE \E resp \in AnswerInputs, entered \in PostTitles :
              IF get_answer(resp) = "yes"
              THEN pub' = [pub EXCEPT !.pc = "date", !.input = resp]
              ELSE IF get_answer(resp) = "no"
              THEN pub' = [pub EXCEPT !.post.metadata.map =
                              ("title" :> entered) @@ md.map, !.input = resp]
              ELSE pub' = [pub EXCEPT !.input = resp]
    /\ UNCHANGED <<watchVars, parseVars, ig, mainVars, dr>>

\* The condition of the loop of line 399: the date shown, accepted or not.
PostDate ==
    /\ pub.pc = "date"
    /\ LET md == pub.post.metadata IN
       IF "date" \notin DOMAIN md.map
       THEN pub' = [pub EXCEPT !.pc = "exited", !.status = "KeyError", !.input = ""]
       ELSE \E resp \in AnswerInputs :
              IF get_answer(resp) = "yes"
              THEN pub' = [pub EXCEPT !.pc = "write", !.input = resp]
              ELSE IF get_answer(resp) = "no"
              THEN pub' = [pub EXCEPT !.pc = "enter_date", !.input = resp]
              ELSE pub' = [pub EXCEPT !.input = resp]
    /\ UNCHANGED <<watchVars, parseVars, ig, mainVars, dr>>

\* One turn of the loop of lines 400-411: a date is entered, and taken if it
\* is one.
PostEnterDate ==
    /\ pub.pc = "enter_date"
    /\ \E d \in DateInputs :
         IF DateOf(d).some
         THEN pub' = [pub EXCEPT !.pc = "date", !.input = d,
                         !.post.metadata.map =
                             ("date" :> DateOf(d).val) @@ pub.post.metadata.map]
         ELSE pub' = [pub EXCEPT !.input = d]
    /\ UNCHANGED <<watchVars, parseVars, ig, mainVars, dr>>

\* Lines 413-429: the name is derived, a file of that name ends the command,
\* else the post is written.
PostWrite ==
    /\ pub.pc = "write"
    /\ LET md == pub.post.metadata.map
           f  == <<POSTS, PostFileName(md["date"], md["title"])>>
           r  == WritePost(fs, f, PublishedData(md, pub.post.body_text))
       IN /\ fs' = r.tree
          /\ pub' = [pub EXCEPT !.pc = IF r.status = "" THEN "written" ELSE "exited",
                                !.status = IF r.status = "" THEN pub.status ELSE r.status,
                                !.target = Opt(f), !.input = ""]
    /\ UNCHANGED <<watcherVars, parseVars, ig, mainVars, dr>>

\* Lines 430-432: the draft is deleted if the author says so.
PostDeleteMutant ==
    /\ pub.pc = "written"
    /\ \E resp \in AnswerInputs :
         /\ fs' = IF get_answer(resp) # "again"
                  THEN [p \in DOMAIN fs \ {pub.draft} |-> fs[p]] ELSE fs
         /\ pub' = IF get_answer(resp) = "again"
                   THEN [pub EXCEPT !.input = resp]
                   ELSE [pub EXCEPT !.pc = "exited", !.status = "exit(0)",
                                    !.input = resp]
    /\ UNCHANGED <<watcherVars, parseVars, ig, mainVars, dr>>
PostDelete ==
    /\ pub.pc = "written"
    /\ \E resp \in AnswerInputs :
         /\ fs' = IF get_answer(resp) = "yes"
                  THEN [p \in DOMAIN fs \ {pub.draft} |-> fs[p]] ELSE fs
         /\ pub' = IF get_answer(resp) = "again"
                   THEN [pub EXCEPT !.input = resp]
                   ELSE [pub EXCEPT !.pc = "exited", !.status = "exit(0)",
                                    !.input = resp]
    /\ UNCHANGED <<watcherVars, parseVars, ig, mainVars, dr>>

PostNext ==
    PostList \/ PostSelect \/ PostTitle \/ PostDate \/ PostEnterDate \/ PostWrite
      \/ PostDelete

DatedDraft == PostData(FM_TEXT, YamlDoc(MapMeta([title |-> T_HI, date |-> D_1])))
OldPost == PostData(<<"o">>, YamlDoc(MapMeta([title |-> <<"o">>])))

\* The names a publication of these drafts may derive.
PostTargets == {<<POSTS, PostFileName(d, t)>> : d \in PostDates, t \in PostTitles}

PostDraftTrees ==
    {EmptyDict, (<<DRAFTS>> :> Dir) @@ (<<DRAFTS, A_MD>> :> File(DatedDraft, TRUE))}
      \cup {(<<DRAFTS>> :> Dir) @@ (<<DRAFTS, A_MD>> :> File(DatedDraft, TRUE))
              @@ (<<DRAFTS, B_MD>> :> File(b, TRUE)) : b \in {TitledPost, MalformedPost}}

PostPostsTrees ==
    {EmptyDict} \cup
    {(<<POSTS>> :> Dir) @@ t :
        t \in UNION {[S -> {File(OldPost, TRUE), Dir}] : S \in SUBSET PostTargets}}

PostIdle ==
    pub = [pc |-> "none", status |-> "running", patterns |-> <<>>, drafts |-> <<>>,
           draft |-> <<>>, post |-> NoPost, target |-> OptNone, before |-> EmptyDict,
           input |-> ""]

\* Main is constructed; the post command begins.
PostInit ==
    /\ fs \in {d @@ p : d \in PostDraftTrees, p \in PostPostsTrees}
    /\ \E patterns \in {<<>>, <<PAT_Q>>} :
         pub = [pc |-> "start", status |-> "running", patterns |-> patterns,
                drafts |-> <<>>, draft |-> <<>>, post |-> NoPost,
                target |-> OptNone, before |-> fs, input |-> ""]

-----------------------------------------------------------------------------
(* Post: what the claims speak of *)

\* C6: a publication whose derived name is taken under the posts root ends
\* with a failure and leaves the tree as it was: the file of that name
\* unchanged, no file created or partly written, the draft not deleted.
C6_CollisionAborts ==
    (pub.target.some /\ pub.target.val \in DOMAIN pub.before) =>
        /\ pub.pc = "exited"
        /\ pub.status = "exit(1)"
        /\ fs = pub.before

C6_Witness ==
    /\ pub.target.some
    /\ pub.target.val = <<POSTS, PostFileName(D_2, T_HI_BANG)>>
    /\ pub.target.val \in DOMAIN pub.before
    /\ pub.before[pub.target.val] = File(OldPost, TRUE)
    /\ pub.status = "exit(1)"
    /\ pub.draft = <<DRAFTS, A_MD>>
    /\ pub.draft \in DOMAIN fs

\* The title and date the name was derived from, and the slug in the name.
NamedFrom == pub.post.metadata.map
SlugOfTarget == Slug(NamedFrom["title"])

\* C23: the published file is named {date}-{slug}.md, the slug being the
\* confirmed title in lower case with a hyphen for every space and without
\* the characters that are no word character, hyphen or white space; the
\* slug holds word characters and hyphens only.
C23_SlugWordCharsAndHyphens ==
    pub.target.some =>
        /\ pub.target.val =
              <<POSTS, NamedFrom["date"] \o <<"-">> \o SlugOfTarget \o <<".", "m", "d">>>>
        /\ \A i \in 1..Len(SlugOfTarget) :
              SlugOfTarget[i] \in WordChars \cup {"-"}

\* What does hold: the name is so derived, and the slug holds word
\* characters, hyphens and what else the pattern of line 414 lets through.
C23_SlugAsDerived ==
    pub.target.some =>
        /\ pub.target.val =
              <<POSTS, NamedFrom["date"] \o <<"-">> \o SlugOfTarget \o <<".", "m", "d">>>>
        /\ \A i \in 1..Len(SlugOfTarget) :
              SlugOfTarget[i] \in WordChars \cup {"-", "|", "^"} \cup (SpaceChars \ {" "})

\* The input that the prompt at hand does not take.
InvalidAt(at, input) ==
    \/ /\ at = "select"
       /\ input \notin {"q", "1", "2", "3"} \/ (input # "q" /\ IntOf(input).val > Len(pub.drafts))
    \/ at \in {"title", "date", "written"} /\ input \notin {"y", "Y", "n", "N"}
    \/ at = "enter_date" /\ input \notin {"t", "1", "2"}

\* A step in which a prompt was answered.
Answered == PostNext /\ pub'.input # ""

\* C25: an input that is not valid at its prompt brings the same prompt again
\* and no failure; the selection is left only with a number from 1 to the
\* number of drafts listed; and nothing is written before the title and the
\* date were accepted, nothing deleted before the deletion was.
C25_InvalidInputReprompts ==
    /\ [][(Answered /\ InvalidAt(pub.pc, pub'.input)) =>
            /\ pub' = [pub EXCEPT !.input = pub'.input]
            /\ fs' = fs]_vars
    /\ [][(Answered /\ pub.pc = "select" /\ pub'.pc \notin {"select", "exited"}) =>
            /\ IntOf(pub'.input).some
            /\ IntOf(pub'.input).val \in 1..Len(pub.drafts)
            /\ pub'.draft = pub.drafts[IntOf(pub'.input).val]]_vars
    /\ [][(PostNext /\ pub'.pc = "write") =>
            pub.pc = "date" /\ pub'.input \in {"y", "Y"}]_vars
    /\ [][(PostNext /\ pub.pc = "title" /\ pub'.pc = "date") =>
            pub'.input \in {"y", "Y"}]_vars
    /\ [][(PostNext /\ fs' # fs) =>
            \/ pub.pc = "write"
            \/ pub.pc = "written" /\ pub'.input \in {"y", "Y"}]_vars

\* The post is written, the answer to the last prompt was none, the prompt
\* stands and the draft is there.
C25_Witness ==
    /\ pub.pc = "written"
    /\ pub.status = "running"
    /\ pub.input = "x"
    /\ pub.draft = <<DRAFTS, A_MD>>
    /\ pub.draft \in DOMAIN fs
    /\ pub.target.val \in DOMAIN fs
    /\ pub.target.val \notin DOMAIN pub.before

\* The entries under a root.
Under(tree, root) == {p \in DOMAIN tree : p # <<>> /\ p[1] = root}

\* The published file is there, whole, and was not there before.
Published ==
    /\ pub.target.some
    /\ pub.target.val \notin DOMAIN pub.before
    /\ pub.target.val \in DOMAIN fs
    /\ fs[pub.target.val] =
          File(PublishedData(pub.post.metadata.map, pub.post.body_text), TRUE)

\* C26: a draft goes only when its published file was written whole in this
\* run of the command and the author said yes to the deletion; else every
\* draft stays as it is; and nothing under the posts root is removed or
\* changed.
C26_DraftDeletedAfterPublication ==
    /\ [][PostNext =>
            \A p \in Under(fs, DRAFTS) :
                \/ p \in DOMAIN fs' /\ fs'[p] = fs[p]
                \/ /\ p = pub.draft
                   /\ p \notin DOMAIN fs'
                   /\ pub.pc = "written"
                   /\ get_answer(pub'.input) = "yes"
                   /\ Published
                   /\ Published']_vars
    /\ [][PostNext =>
            \A p \in Under(fs, POSTS) : p \in DOMAIN fs' /\ fs'[p] = fs[p]]_vars
    /\ [](pub.pc = "exited" /\ ~(pub.status = "exit(0)" /\ pub.input \in {"y", "Y"}) =>
            \A p \in Under(pub.before, DRAFTS) :
                p \in DOMAIN fs /\ fs[p] = pub.before[p])

\* Published and deleted.
C26_Witness ==
    /\ pub.pc = "exited"
    /\ pub.status = "exit(0)"
    /\ pub.input = "y"
    /\ Published
    /\ pub.draft = <<DRAFTS, A_MD>>
    /\ pub.draft \in DOMAIN pub.before
    /\ pub.draft \notin DOMAIN fs
    /\ <<DRAFTS, B_MD>> \in DOMAIN fs

-----------------------------------------------------------------------------
(* Specifications: each part of the program runs with the others at rest *)

\* No watcher yet.
WatcherIdle ==
    /\ platform = "posix"
    /\ ignore_patterns = <<>>
    /\ winit = FALSE
    /\ wpc = "new"
    /\ path_hash = EmptyDict
    /\ result = NoResult
    /\ tick = 0
    /\ calls = 0
    /\ lastFs = EmptyDict

MainIdle ==
    /\ program = "blogger"
    /\ cmd = "none"
    /\ args_drafts = FALSE
    /\ ext_env = NoExtensions
    /\ out_dir = EmptyDict
    /\ MainFresh

WatchIdle ==
    /\ platform = "posix"
    /\ fs = EmptyDict
    /\ ignore_patterns = <<>>
    /\ winit = FALSE
    /\ wpc = "new"
    /\ path_hash = EmptyDict
    /\ result = NoResult
    /\ tick = 0
    /\ calls = 0
    /\ lastFs = EmptyDict

ParseIdle ==
    /\ source_text = <<>>
    /\ yaml_in = YamlNoDocs
    /\ parsed = [done |-> FALSE, post |-> NoPost]

IgIdle ==
    ig = [tree |-> EmptyDict, patterns |-> <<>>, platform |-> "posix",
          scan |-> IgNotDone, watch |-> IgNotDone, copy |-> IgNotDone]

InitWatch == WatchInit /\ ParseIdle /\ IgIdle /\ MainIdle /\ PostIdle /\ DraftIdle
SpecWatch == InitWatch /\ [][WatchNext]_vars

InitParse == ParseInit /\ WatchIdle /\ IgIdle /\ MainIdle /\ PostIdle /\ DraftIdle
SpecParse == InitParse /\ [][ParseNext]_vars

InitIg == IgInit /\ WatchIdle /\ ParseIdle /\ MainIdle /\ PostIdle /\ DraftIdle
SpecIgnore == InitIg /\ [][IgNext]_vars

InitCompile == CompileInit /\ WatcherIdle /\ ParseIdle /\ IgIdle /\ PostIdle /\ DraftIdle
SpecCompile == InitCompile /\ [][CompileNext]_vars

RunWatcherIdle ==
    /\ ignore_patterns = <<>>
    /\ winit = FALSE
    /\ wpc = "new"
    /\ path_hash = EmptyDict
    /\ result = NoResult
    /\ tick = 0
    /\ calls = 0
    /\ lastFs = EmptyDict

InitRun == RunInit /\ RunWatcherIdle /\ ParseIdle /\ IgIdle /\ PostIdle /\ DraftIdle
SpecRun == InitRun /\ [][RunNext]_vars

\* The process runs on: blogger.py's run is one sequential process, so a
\* compile under way takes its next step and the loop condition of line 174
\* is tested again (weak fairness of Proceeds).  The platform is the one on
\* which the watcher's walk returns for every tree.
RunLiveInit == RunInit /\ program = "blogger" /\ cmd = "run" /\ platform = "win32"
InitRunLive == RunLiveInit /\ RunWatcherIdle /\ ParseIdle /\ IgIdle /\ PostIdle /\ DraftIdle
SpecRunLive == InitRunLive /\ [][RunNext]_vars /\ WF_vars(Proceeds)

InitTwice == TwiceInit /\ WatcherIdle /\ ParseIdle /\ IgIdle /\ PostIdle /\ DraftIdle
SpecTwice == InitTwice /\ [][TwiceNext]_vars

InitPost == PostInit /\ WatcherIdle /\ ParseIdle /\ IgIdle /\ MainIdle /\ DraftIdle
SpecPost == InitPost /\ [][PostNext]_vars

\* The draft command runs on: its loop is sequential code of one process.
InitDraft == DraftInit /\ WatcherIdle /\ ParseIdle /\ IgIdle /\ MainIdle /\ PostIdle
SpecDraft == InitDraft /\ [][DraftNext]_vars /\ WF_vars(DraftNext)

=============================================================================
